---------------------------- MODULE Spec2Model ----------------------------
(***************************************************************************)
(* TasteTrend review ETL: schema reconciliation (build_colmap), field      *)
(* coercion, rating-scale inference, tip derivation and capping,           *)
(* categorical normalisation, deduplication (src/src/etl/etl.py) and the   *)
(* per-source validation report (src/src/etl_validation.py).               *)
(*                                                                         *)
(* Representation.                                                         *)
(*  - A text is a sequence of tokens.  A token is a whitespace character   *)
(*    (" " or a tab), or a maximal chunk of non-whitespace characters.     *)
(*    strip / lower / re.sub act on tokens exactly as the Python calls act *)
(*    on the characters of the text.                                       *)
(*  - A cell is NA (NaN / pd.NA / NaT), Num(n, d) (the rational n/d in     *)
(*    lowest terms; float rounding is not modelled), Str(text), or         *)
(*    Date(day).                                                           *)
(*  - A DataFrame is [cols, index, rows]: the ordered column labels, the   *)
(*    row labels kept from the raw table, and one function column -> cell  *)
(*    per row.                                                             *)
(***************************************************************************)
EXTENDS Integers, Sequences, FiniteSets, TLC

\* ------------------------------------------------------------------ bounds
\* Loads per ReviewLoader instance.
MaxLoads == 2
\* Rows per raw input file.
MaxRows == 2

\* ----------------------------------------------------------------- helpers
Range(s) == {s[i] : i \in DOMAIN s}

MinOf(S) == CHOOSE x \in S : \A y \in S : x <= y

MaxOf(S) == CHOOSE x \in S : \A y \in S : x >= y

\* Position of the first occurrence of x in sequence s (x is in s).
IndexOf(s, x) == MinOf({i \in DOMAIN s : s[i] = x})

\* All sequences over S of length at most n.
SeqUpTo(S, n) == UNION {[1..k -> S] : k \in 0..n}

Abs(x) == IF x < 0 THEN -x ELSE x

\* The function f on 1..n as an explicit tuple, and a function as an explicit
\* table (same values; evaluated once instead of on every access).
AsSeq(f) == f \o <<>>

AsFcn(f) == f @@ <<>>

RECURSIVE Gcd(_, _)
Gcd(a, b) == IF b = 0 THEN a ELSE Gcd(b, a % b)

\* ------------------------------------------------------------------- cells
NA == [k |-> "na", n |-> 0, d |-> 1, s |-> <<>>]

\* The rational n/d (d # 0) in lowest terms with a positive denominator.
Num(n, d) ==
    LET g == Gcd(Abs(n), Abs(d))
        sg == IF d < 0 THEN -1 ELSE 1
    IN [k |-> "num", n |-> sg * (n \div g), d |-> sg * (d \div g), s |-> <<>>]

Int2Num(n) == Num(n, 1)

Str(t) == [k |-> "str", n |-> 0, d |-> 1, s |-> t]

Date(day) == [k |-> "date", n |-> day, d |-> 1, s |-> <<>>]

isna(v) == v.k = "na"

notna(v) == v.k # "na"

\* Float arithmetic and comparison on cells; NaN propagates, comparisons
\* with NaN are false.
NumDiv(a, b) == IF isna(a) \/ isna(b) THEN NA ELSE Num(a.n * b.d, a.d * b.n)

NumMul(a, b) == IF isna(a) \/ isna(b) THEN NA ELSE Num(a.n * b.n, a.d * b.d)

NumGt(a, b) == a.k = "num" /\ b.k = "num" /\ a.n * b.d > b.n * a.d

NumLt(a, b) == a.k = "num" /\ b.k = "num" /\ a.n * b.d < b.n * a.d

NumLe(a, b) == a.k = "num" /\ b.k = "num" /\ a.n * b.d <= b.n * a.d

NumEq(a, b) == a.k = "num" /\ b.k = "num" /\ a.n * b.d = b.n * a.d

\* ------------------------------------------------------------------- texts
\* Whitespace characters (Python str.strip() and the regex class \s).
WS == {" ", "\t"}

\* str.lower() on the tokens that carry upper-case characters.
LOWER ==
    ("ID" :> "id") @@ ("Review" :> "review") @@ ("Comments" :> "comments")
    @@ ("Feedback" :> "feedback") @@ ("Star" :> "star") @@ ("Rating" :> "rating")
    @@ ("Total" :> "total") @@ ("Spent" :> "spent") @@ ("Tip" :> "tip")
    @@ ("Amount" :> "amount") @@ ("Gender" :> "gender") @@ ("GENDER" :> "gender")
    @@ ("Ethnicity" :> "ethnicity") @@ ("Age" :> "age") @@ ("Range" :> "range")
    @@ ("Date" :> "date") @@ ("Name" :> "name") @@ ("Venue" :> "venue")
    @@ ("M" :> "m") @@ ("F" :> "f") @@ ("Male" :> "male") @@ ("Female" :> "female")
    @@ ("White" :> "white") @@ ("Latino" :> "latino") @@ ("Martian" :> "martian")
    @@ ("Unspecified" :> "unspecified") @@ ("Good" :> "good")
    @@ ("Guest" :> "guest") @@ ("Visit" :> "visit") @@ ("Ann" :> "ann")
    @@ ("Bob" :> "bob") @@ ("Cafe" :> "cafe") @@ ("Foo" :> "foo")
    @@ (".CSV" :> ".csv") @@ (".TXT" :> ".txt") @@ (".JSON" :> ".json")

lower_tok(t) == IF t \in DOMAIN LOWER THEN LOWER[t] ELSE t

lower(s) == AsSeq([i \in DOMAIN s |-> lower_tok(s[i])])

strip(s) ==
    LET keep == {i \in DOMAIN s : s[i] \notin WS}
    IN IF keep = {} THEN <<>> ELSE SubSeq(s, MinOf(keep), MaxOf(keep))

RECURSIVE lstrip(_)
lstrip(s) == IF s # <<>> /\ Head(s) \in WS THEN lstrip(Tail(s)) ELSE s

\* re.sub(r"[\s]+", "_", c): every maximal run of whitespace becomes one "_".
RECURSIVE re_sub_ws(_)
re_sub_ws(s) ==
    IF s = <<>> THEN <<>>
    ELSE IF Head(s) \in WS THEN <<"_">> \o re_sub_ws(lstrip(s))
    ELSE <<Head(s)>> \o re_sub_ws(Tail(s))

normalize_colname(c) == re_sub_ws(lower(strip(c)))

\* ------------------------------------------------- unified schema & tables
STANDARD_COLS ==
    << "review_id", "customer_name", "review_date", "rating_raw", "rating_scale",
       "rating_1_5", "review_text", "location", "restaurant_name",
       "total_spent", "tip_amount", "tip_percentage", "party_size",
       "age_range", "gender", "ethnicity", "source_file" >>

NORM_COLS == << "gender_norm", "ethnicity_norm", "age_group" >>

\* dict order is insertion order: a sequence of (unified, aliases) items.
SYNONYMS ==
    << [unified |-> "review_id",
        alts |-> << <<"review", "_", "id">>, <<"review", "_", "number">>, <<"id">> >>],
       [unified |-> "customer_name",
        alts |-> << <<"customer", "_", "name">>, <<"guest", "_", "name">>, <<"name">> >>],
       [unified |-> "review_date",
        alts |-> << <<"date">>, <<"visit", "_", "date">>, <<"review", "_", "date">> >>],
       [unified |-> "rating_raw",
        alts |-> << <<"rating">>, <<"satisfaction", "_", "score">>,
                    <<"rating", "_", "out", "_", "of", "_", "10">>,
                    <<"star", "_", "rating">> >>],
       [unified |-> "review_text",
        alts |-> << <<"review", "_", "text">>, <<"feedback", "_", "comments">>,
                    <<"comments">> >>],
       [unified |-> "location",
        alts |-> << <<"location">>, <<"venue", "_", "location">>, <<"venue">> >>],
       [unified |-> "restaurant_name",
        alts |-> << <<"restaurant", "_", "name">>, <<"business", "_", "name">>,
                    <<"establishment">> >>],
       [unified |-> "total_spent", alts |-> << <<"total", "_", "spent">> >>],
       [unified |-> "tip_amount", alts |-> << <<"tip", "_", "amount">> >>],
       [unified |-> "tip_percentage", alts |-> << <<"tip", "_", "percentage">> >>],
       [unified |-> "party_size", alts |-> << <<"party", "_", "size">> >>],
       [unified |-> "age_range", alts |-> << <<"age", "_", "range">> >>],
       [unified |-> "gender", alts |-> << <<"gender">> >>],
       [unified |-> "ethnicity", alts |-> << <<"ethnicity">> >>] >>

GENDER_MAP ==
    (<<"m">> :> <<"male">>) @@ (<<"male">> :> <<"male">>)
    @@ (<<"f">> :> <<"female">>) @@ (<<"female">> :> <<"female">>)
    @@ (<<"o">> :> <<"other">>) @@ (<<"other">> :> <<"other">>)
    @@ (<<"non-binary">> :> <<"non_binary">>)
    @@ (<<"prefer", " ", "not", " ", "to", " ", "say">> :> <<"na">>)

ETHNICITY_MAP ==
    (<<"caucasian">> :> <<"caucasian">>) @@ (<<"white">> :> <<"caucasian">>)
    @@ (<<"black">> :> <<"african_american">>)
    @@ (<<"african", " ", "american">> :> <<"african_american">>)
    @@ (<<"asian">> :> <<"asian">>) @@ (<<"latino">> :> <<"hispanic">>)
    @@ (<<"hispanic">> :> <<"hispanic">>) @@ (<<"mixed">> :> <<"mixed">>)
    @@ (<<"native", " ", "american">> :> <<"native_american">>)
    @@ (<<"other">> :> <<"other">>)

AGE_RANGE_MAP ==
    (<<"18-25">> :> <<"young_adult">>) @@ (<<"26-35">> :> <<"adult">>)
    @@ (<<"36-45">> :> <<"mid_age">>) @@ (<<"46-55">> :> <<"mature">>)
    @@ (<<"56-65">> :> <<"senior">>) @@ (<<"65+">> :> <<"elder">>)


\* Number of characters of each token that is not a single character.
TOKEN_CHARS ==
    ("good" :> 4) @@ ("Good" :> 4) @@ ("bad" :> 3) @@ ("ok" :> 2) @@ ("fine" :> 4)
    @@ ("x2001" :> 2001) @@ ("x2000" :> 2000)

tok_len(t) == IF t \in DOMAIN TOKEN_CHARS THEN TOKEN_CHARS[t] ELSE 1

RECURSIVE str_len(_)
str_len(s) == IF s = <<>> THEN 0 ELSE tok_len(Head(s)) + str_len(Tail(s))

\* The first k characters of token t, for the cuts the inputs can need.
TOKEN_CUT == <<"x2001", 2000>> :> "x2000"

\* str.slice(0, max_len)
RECURSIVE str_slice(_, _)
str_slice(s, max_len) ==
    IF s = <<>> \/ max_len <= 0 THEN <<>>
    ELSE IF tok_len(Head(s)) <= max_len
         THEN <<Head(s)>> \o str_slice(Tail(s), max_len - tok_len(Head(s)))
         ELSE <<TOKEN_CUT[<<Head(s), max_len>>]>>

\* Texts that pd.to_numeric parses, with their values.
NUMERALS == (<<"7">> :> 7) @@ (<<"85">> :> 85) @@ (<<"50">> :> 50)

\* Texts that pd.to_datetime parses, with the day they denote.
DATES == (<<"2024-01-05">> :> 19727) @@ (<<"2024-02-10">> :> 19763)

\* ------------------------------------------------------------- ColumnResolver
\* raw_norm = {normalize_colname(c): c for c in raw_cols}: for equal keys the
\* last raw column stays.
raw_norm_of(raw_cols) ==
    [nm \in {normalize_colname(raw_cols[i]) : i \in DOMAIN raw_cols} |->
        raw_cols[MaxOf({i \in DOMAIN raw_cols : normalize_colname(raw_cols[i]) = nm})]]

\* A variant of the inner loop without its break: the last matching alias wins.
RECURSIVE match_alts_nobreak(_, _)
match_alts_nobreak(alts, raw_norm) ==
    IF alts = <<>> THEN <<>>
    ELSE LET rest == match_alts_nobreak(Tail(alts), raw_norm)
         IN IF rest # <<>> THEN rest
            ELSE IF normalize_colname(Head(alts)) \in DOMAIN raw_norm
                 THEN <<raw_norm[normalize_colname(Head(alts))]>>
                 ELSE <<>>

\* The inner loop of build_colmap over one field's aliases: <<raw column>> of
\* the first alias found in raw_norm, <<>> when no alias is found.
RECURSIVE match_alts(_, _)
match_alts(alts, raw_norm) ==
    IF alts = <<>> THEN <<>>
    ELSE IF normalize_colname(Head(alts)) \in DOMAIN raw_norm
         THEN <<raw_norm[normalize_colname(Head(alts))]>>
         ELSE match_alts(Tail(alts), raw_norm)

\* The mapping unified -> raw column, as a function on the resolved fields.
build_colmap(raw_cols, synonyms) ==
    LET raw_norm == raw_norm_of(raw_cols)
        hit(i) == match_alts(synonyms[i].alts, raw_norm)
        found == {i \in DOMAIN synonyms : hit(i) # <<>>}
    IN AsFcn([u \in {synonyms[i].unified : i \in found} |->
                 hit(CHOOSE i \in found : synonyms[i].unified = u)[1]])

\* mapping.items() iterates in insertion order, which is the order of synonyms.
mapping_items(mapping, synonyms) ==
    LET keys == [i \in DOMAIN synonyms |-> synonyms[i].unified]
        in_map(u) == u \in DOMAIN mapping
    IN SelectSeq(keys, in_map)

\* ------------------------------------------------------------- DataFrames
EmptyFrame == [cols |-> <<>>, index |-> <<>>, rows |-> <<>>]

has_col(df, c) == c \in Range(df.cols)

\* A table with the given columns and rows (tuples of cells), labelled 0, 1, ...
MakeFrame(cols, tuples) ==
    [cols |-> cols,
     index |-> AsSeq([i \in DOMAIN tuples |-> i - 1]),
     rows |-> AsSeq([i \in DOMAIN tuples |->
                 AsFcn([c \in Range(cols) |-> tuples[i][IndexOf(cols, c)]])])]

column(df, c) == AsSeq([i \in DOMAIN df.rows |-> df.rows[i][c]])

\* df[c] = vals : replaces column c in place, or adds it as the last column.
assign(df, c, vals) ==
    [cols |-> IF has_col(df, c) THEN df.cols ELSE Append(df.cols, c),
     index |-> df.index,
     rows |-> AsSeq([i \in DOMAIN df.rows |-> (c :> vals[i]) @@ df.rows[i]])]

\* df[c] = scalar
assign_scalar(df, c, v) == assign(df, c, [i \in DOMAIN df.rows |-> v])

\* df[c] = f(df[c]) cell by cell
map_col(df, c, F(_)) == assign(df, c, [i \in DOMAIN df.rows |-> F(df.rows[i][c])])

\* A variant that returns the kept rows last first.
take_rows_reversed(df, keep) ==
    LET pos == SelectSeq([i \in DOMAIN df.rows |-> Len(df.rows) + 1 - i], LAMBDA i : i \in keep)
    IN [cols |-> df.cols,
        index |-> AsSeq([j \in DOMAIN pos |-> df.index[pos[j]]]),
        rows |-> AsSeq([j \in DOMAIN pos |-> df.rows[pos[j]]])]

\* The rows of df at the positions in keep, in their original order.
take_rows(df, keep) ==
    LET pos == SelectSeq([i \in DOMAIN df.rows |-> i], LAMBDA i : i \in keep)
    IN [cols |-> df.cols,
        index |-> AsSeq([j \in DOMAIN pos |-> df.index[pos[j]]]),
        rows |-> AsSeq([j \in DOMAIN pos |-> df.rows[pos[j]]])]

\* df[cols]
project(df, cols) ==
    [cols |-> cols,
     index |-> df.index,
     rows |-> AsSeq([i \in DOMAIN df.rows |-> AsFcn([c \in Range(cols) |-> df.rows[i][c]])])]

\* ------------------------------------------------------------ FieldCoercion
\* pd.to_numeric(errors="coerce") on one cell.
coerce_numeric(v) ==
    IF v.k = "num" THEN v
    ELSE IF v.k = "str" /\ v.s \in DOMAIN NUMERALS THEN Int2Num(NUMERALS[v.s])
    ELSE NA

\* astype("string") on one cell.
as_string(v) ==
    IF v.k = "str" THEN v
    ELSE IF v.k = "num" /\ v.d = 1 THEN Str(<<ToString(v.n)>>)
    ELSE IF v.k = "num" THEN Str(<<ToString(v.n), "/", ToString(v.d)>>)
    ELSE IF v.k = "date" THEN Str(<<ToString(v.n)>>)
    ELSE NA

str_strip(v) == IF v.k = "str" THEN Str(strip(v.s)) ELSE v

str_lower(v) == IF v.k = "str" THEN Str(lower(v.s)) ELSE v

coerce_str(v) == str_strip(as_string(v))

\* .replace({"": pd.NA}) after the strip
clean_review_text(v) ==
    LET t == str_strip(as_string(v)) IN IF t = Str(<<>>) THEN NA ELSE t

\* pd.to_datetime(errors="coerce") on one cell; a number is a count from the
\* epoch.
coerce_date(v) ==
    IF v.k = "date" THEN v
    ELSE IF v.k = "str" /\ v.s \in DOMAIN DATES THEN Date(DATES[v.s])
    ELSE IF v.k = "num" /\ v.d = 1 THEN Date(v.n)
    ELSE NA


\* vals.max(skipna=True) of a numeric column; NA when no value is present.
series_max(vals) ==
    LET present == {vals[i] : i \in {j \in DOMAIN vals : notna(vals[j])}}
    IN IF present = {} THEN NA
       ELSE CHOOSE m \in present : \A v \in present : NumLe(v, m)

infer_rating_scale(series) ==
    LET vmax == series_max([i \in DOMAIN series |-> coerce_numeric(series[i])])
    IN IF isna(vmax) THEN 5
       ELSE IF NumLt(Int2Num(5), vmax) /\ NumLe(vmax, Int2Num(10)) THEN 10
       ELSE IF NumLt(Int2Num(10), vmax) /\ NumLe(vmax, Int2Num(100)) THEN 100
       ELSE 5

\* A variant whose mask forgets the "== 0" alternative of needs.
compute_tip_pct_nozero(df) ==
    LET df0 == IF has_col(df, "tip_percentage") THEN df
               ELSE assign_scalar(df, "tip_percentage", NA)
        mask(r) == isna(r["tip_percentage"])
                   /\ NumGt(r["total_spent"], Int2Num(0))
                   /\ notna(r["tip_amount"])
    IN assign(df0, "tip_percentage",
              [i \in DOMAIN df0.rows |->
                  IF mask(df0.rows[i])
                  THEN NumMul(NumDiv(df0.rows[i]["tip_amount"], df0.rows[i]["total_spent"]),
                              Int2Num(100))
                  ELSE df0.rows[i]["tip_percentage"]])

compute_tip_pct(df) ==
    LET df0 == IF has_col(df, "tip_percentage") THEN df
               ELSE assign_scalar(df, "tip_percentage", NA)
        needs(r) == isna(r["tip_percentage"]) \/ NumEq(r["tip_percentage"], Int2Num(0))
        mask(r) == needs(r) /\ NumGt(r["total_spent"], Int2Num(0))
                   /\ notna(r["tip_amount"])
    IN assign(df0, "tip_percentage",
              [i \in DOMAIN df0.rows |->
                  IF mask(df0.rows[i])
                  THEN NumMul(NumDiv(df0.rows[i]["tip_amount"], df0.rows[i]["total_spent"]),
                              Int2Num(100))
                  ELSE df0.rows[i]["tip_percentage"]])

\* A variant that compares against a threshold one third above the cap.
cap_tip_percentage_late(df, cap) ==
    IF has_col(df, "tip_percentage")
    THEN map_col(df, "tip_percentage",
                 LAMBDA v : IF NumGt(v, NumMul(cap, Num(4, 3))) THEN cap ELSE v)
    ELSE df

cap_tip_percentage(df, cap) ==
    IF has_col(df, "tip_percentage")
    THEN map_col(df, "tip_percentage", LAMBDA v : IF NumGt(v, cap) THEN cap ELSE v)
    ELSE df

\* np.log1p of a clipped value, kept symbolic: the cell that stands for
\* ln(1 + n/d).
Log1p(v) == IF isna(v) THEN NA ELSE [k |-> "log1p", n |-> v.n, d |-> v.d, s |-> <<>>]

clip_lower0(v) == IF NumLt(v, Int2Num(0)) THEN Int2Num(0) ELSE v

add_log_total_spent(df) ==
    IF has_col(df, "total_spent")
    THEN assign(df, "log_total_spent",
                [i \in DOMAIN df.rows |-> Log1p(clip_lower0(df.rows[i]["total_spent"]))])
    ELSE df

cap_review_length(df, max_len) ==
    IF has_col(df, "review_text")
    THEN LET txt(i) == as_string(df.rows[i]["review_text"])
             df1 == assign(df, "review_length",
                           [i \in DOMAIN df.rows |->
                               IF isna(txt(i)) THEN NA ELSE Int2Num(str_len(txt(i).s))])
         IN assign(df1, "review_text_trunc",
                   [i \in DOMAIN df.rows |->
                       IF isna(txt(i)) THEN NA ELSE Str(str_slice(txt(i).s, max_len))])
    ELSE df

\* ------------------------------------------------------------- Deduplicator
\* df.dropna(how="all")
\* A variant with how="any".
dropna_any(df) ==
    take_rows(df, {i \in DOMAIN df.rows : \A c \in Range(df.cols) : notna(df.rows[i][c])})

\* df.dropna(how="all")
dropna_all(df) ==
    take_rows(df, {i \in DOMAIN df.rows : \E c \in Range(df.cols) : notna(df.rows[i][c])})

\* A variant in which a missing cell equals no other cell.
drop_duplicates_nan_distinct(df, subset) ==
    take_rows(df, {i \in DOMAIN df.rows :
                     ~ \E j \in 1..(i - 1) :
                         \A c \in Range(subset) :
                             notna(df.rows[i][c]) /\ df.rows[j][c] = df.rows[i][c]})

\* A variant with keep="last".
drop_duplicates_last(df, subset) ==
    take_rows(df, {i \in DOMAIN df.rows :
                     ~ \E j \in (i + 1)..Len(df.rows) :
                         \A c \in Range(subset) : df.rows[j][c] = df.rows[i][c]})

\* df.drop_duplicates(subset=subset, keep="first"); missing cells compare equal.
drop_duplicates(df, subset) ==
    take_rows(df, {i \in DOMAIN df.rows :
                     ~ \E j \in 1..(i - 1) :
                         \A c \in Range(subset) : df.rows[j][c] = df.rows[i][c]})

dedup_stage1(df) == dropna_all(df)

\* A variant that skips the stage.
dedup_stage2_skip(df) == df

dedup_stage2(df) ==
    IF has_col(df, "review_text") THEN drop_duplicates(df, <<"review_text">>) ELSE df

\* A variant whose key is customer_name alone.
dedup_stage3_name(df) ==
    IF has_col(df, "customer_name") THEN drop_duplicates(df, <<"customer_name">>) ELSE df

dedup_stage3(df) ==
    LET key_cols == SelectSeq(<<"customer_name", "review_text", "review_date",
                                "restaurant_name">>,
                              LAMBDA c : has_col(df, c))
    IN IF key_cols # <<>> THEN drop_duplicates(df, key_cols) ELSE df

deduplicate_reviews(df) == dedup_stage3(dedup_stage2(dedup_stage1(df)))


\* --------------------------------------------------------------- ReviewLoader
\* A FileSpec with the table its file holds: path is <<stem, suffix>>, raw is
\* [cols, rows] with one cell per column in every row.
NoFile == [path |-> <<"", "">>, source_name |-> "", raw |-> [cols |-> <<>>, rows |-> <<>>]]

\* path.name as a text
path_name(path) == path

\* read_table_any accepts path.suffix.lower() in {".csv", ".txt"} and raises
\* ValueError otherwise.
supported(path) == lower_tok(path[2]) \in {".csv", ".txt"}

\* df_raw.columns = [normalize_colname(c) for c in df_raw.columns]
normalized_columns(raw) ==
    AsSeq([i \in DOMAIN raw.cols |-> normalize_colname(raw.cols[i])])

\* selected = {unified: df_raw[raw_col]}; df = pd.DataFrame(selected);
\* df["source_file"] = spec.path.name.  A frame built from no column has no
\* row, and the scalar assignment then adds an empty column.
select_unified(raw, mapping, name) ==
    LET cols == normalized_columns(raw)
        order == mapping_items(mapping, SYNONYMS)
        n == IF order = <<>> THEN 0 ELSE Len(raw.rows)
        base == [cols |-> order,
                 index |-> AsSeq([i \in 1..n |-> i - 1]),
                 rows |-> AsSeq([i \in 1..n |->
                             AsFcn([u \in DOMAIN mapping |->
                                 raw.rows[i][IndexOf(cols, mapping[u])]])])]
    IN assign_scalar(base, "source_file", Str(name))

\* self.schema_audit_rows.append({...}) for every item of the mapping
audit_append(rows, name, mapping) ==
    LET order == mapping_items(mapping, SYNONYMS)
    IN rows \o [j \in DOMAIN order |->
                  [source_file |-> name, unified_col |-> order[j],
                   raw_col |-> mapping[order[j]]]]

coerce_if(df, c, F(_)) == IF has_col(df, c) THEN map_col(df, c, F) ELSE df

coerce_types(df) ==
    LET d1 == coerce_if(df, "customer_name", coerce_str)
        d2 == coerce_if(d1, "review_text", clean_review_text)
        d3 == coerce_if(d2, "location", coerce_str)
        d4 == coerce_if(d3, "restaurant_name", coerce_str)
        d5 == coerce_if(d4, "review_date", coerce_date)
        d6 == coerce_if(d5, "total_spent", coerce_numeric)
        d7 == coerce_if(d6, "tip_amount", coerce_numeric)
        d8 == coerce_if(d7, "tip_percentage", coerce_numeric)
    IN coerce_if(d8, "party_size", coerce_numeric)

\* A variant that infers the scale of each row from that row alone.
rate_per_row(df) ==
    IF has_col(df, "rating_raw")
    THEN LET d1 == map_col(df, "rating_raw", coerce_numeric)
             sc(i) == infer_rating_scale(<<d1.rows[i]["rating_raw"]>>)
             d2 == assign(d1, "rating_scale", [i \in DOMAIN d1.rows |-> Int2Num(sc(i))])
         IN assign(d2, "rating_1_5",
                   [i \in DOMAIN d2.rows |->
                       NumMul(NumDiv(d2.rows[i]["rating_raw"], Int2Num(sc(i))), Int2Num(5))])
    ELSE assign_scalar(assign_scalar(assign_scalar(df, "rating_raw", NA),
                                     "rating_scale", NA), "rating_1_5", NA)

rate(df) ==
    IF has_col(df, "rating_raw")
    THEN LET d1 == map_col(df, "rating_raw", coerce_numeric)
             scale == infer_rating_scale(column(d1, "rating_raw"))
             d2 == assign_scalar(d1, "rating_scale", Int2Num(scale))
         IN assign(d2, "rating_1_5",
                   [i \in DOMAIN d2.rows |->
                       NumMul(NumDiv(d2.rows[i]["rating_raw"], Int2Num(scale)), Int2Num(5))])
    ELSE assign_scalar(assign_scalar(assign_scalar(df, "rating_raw", NA),
                                     "rating_scale", NA), "rating_1_5", NA)

tip_stage(df) ==
    IF {"total_spent", "tip_amount"} \subseteq Range(df.cols) THEN compute_tip_pct(df) ELSE df

\* A variant without the fillna: unmapped values become missing.
map_fillna_nofill(v, cmap) ==
    IF v.k = "str" /\ v.s \in DOMAIN cmap THEN Str(cmap[v.s]) ELSE NA

\* series.map(cmap).fillna(series) on one cell
map_fillna(v, cmap) ==
    IF v.k = "str" /\ v.s \in DOMAIN cmap THEN Str(cmap[v.s]) ELSE v

normalize_categorical(df, c, norm_col, cmap) ==
    IF has_col(df, c)
    THEN LET d1 == map_col(df, c, LAMBDA v : str_lower(coerce_str(v)))
         IN assign(d1, norm_col, [i \in DOMAIN d1.rows |-> map_fillna(d1.rows[i][c], cmap)])
    ELSE df

categoricals(df) ==
    normalize_categorical(
        normalize_categorical(
            normalize_categorical(df, "gender", "gender_norm", GENDER_MAP),
            "ethnicity", "ethnicity_norm", ETHNICITY_MAP),
        "age_range", "age_group", AGE_RANGE_MAP)

CAT_COLS == {"gender", "ethnicity", "age_range"}

\* self.cat_summary[c][spec.source_name] = set(df[c].dropna().unique()) for
\* each categorical column the frame has.
observe(summary, df, source_name) ==
    [c \in CAT_COLS |->
        IF has_col(df, c)
        THEN (source_name :> {df.rows[i][c].s : i \in {j \in DOMAIN df.rows : notna(df.rows[j][c])}})
             @@ summary[c]
        ELSE summary[c]]

\* A variant without the loop: no absent column is added.
ensure_standard_skip(df) == df

\* for c in STANDARD_COLS: if c not in df.columns: df[c] = np.nan
\* The absent columns are added in the order of STANDARD_COLS.
ensure_standard(df) ==
    LET absent == SelectSeq(STANDARD_COLS, LAMBDA c : ~ has_col(df, c))
    IN [cols |-> df.cols \o absent,
        index |-> df.index,
        rows |-> AsSeq([i \in DOMAIN df.rows |->
                          [c \in Range(absent) |-> NA] @@ df.rows[i]])]

\* df[[c for c in STANDARD_COLS + NORM_COLS if c in df.columns]]
select_available(df) ==
    project(df, SelectSeq(STANDARD_COLS \o NORM_COLS, LAMBDA c : has_col(df, c)))

\* The rows categorical_report() lists (their sort order is not modelled).
categorical_report(summary) ==
    UNION {{[column |-> c, source |-> src, value |-> v] : v \in summary[c][src]} :
              <<c, src>> \in {p \in CAT_COLS \X UNION {DOMAIN summary[c2] : c2 \in CAT_COLS} :
                                p[2] \in DOMAIN summary[p[1]]}}

\* ------------------------------------------------------------ ValidationEngine
\* row_count_raw=None
NoRowCount == -1

\* THRESHOLDS: review_text_missing_pct 0.40, age_range_missing_pct 0.20
THRESHOLDS == ("review_text" :> Num(2, 5)) @@ ("age_range" :> Num(1, 5))

\* df[c].isna().mean(): NaN for a frame without rows.
isna_mean(df, c) ==
    IF df.rows = <<>> THEN NA
    ELSE Num(Cardinality({i \in DOMAIN df.rows : isna(df.rows[i][c])}), Len(df.rows))

\* f"{pct:.1%}": the percentage rounded to one decimal, as a count of tenths
\* of a percent (ties round up here; Python rounds the binary value).
fmt_pct1(v) == (2000 * v.n + v.d) \div (2 * v.d)

\* df[c].duplicated().sum(): rows equal to an earlier row (missing = missing).
duplicated_sum(df, c) ==
    Cardinality({i \in DOMAIN df.rows : \E j \in 1..(i - 1) : df.rows[j][c] = df.rows[i][c]})

count_rows(df, P(_)) == Cardinality({i \in DOMAIN df.rows : P(df.rows[i])})

\* The distinct members of a sequence in order of first appearance (.unique()).
unique_seq(s) ==
    LET first == {i \in DOMAIN s : ~ \E j \in 1..(i - 1) : s[j] = s[i]}
        pos == SelectSeq([i \in DOMAIN s |-> i], LAMBDA i : i \in first)
    IN [k \in DOMAIN pos |-> s[pos[k]]]

\* df[df[norm].isna() & df[c].notna()][c].unique()
unmapped(df, norm_col, c) ==
    LET hit == SelectSeq(df.rows, LAMBDA r : isna(r[norm_col]) /\ notna(r[c]))
    IN unique_seq([i \in DOMAIN hit |-> hit[i][c]])

\* A variant that fails only a report that still passes.
esc_fail_from_pass(st, cond) == IF cond /\ st = "pass" THEN "fail" ELSE st

esc_fail(st, cond) == IF cond THEN "fail" ELSE st

\* A variant without the 'status == "pass"' test.
esc_warn_always(st, cond) == IF cond THEN "warn" ELSE st

esc_warn(st, cond) == IF cond /\ st = "pass" THEN "warn" ELSE st

REQUIRED_COLS == <<"review_id", "rating_1_5", "review_text">>

\* A variant that reports the first absent column only.
missing_columns_first(df) ==
    LET absent == SelectSeq(REQUIRED_COLS, LAMBDA c : ~ has_col(df, c))
    IN IF absent = <<>> THEN <<>> ELSE <<Head(absent)>>

missing_columns(df) == SelectSeq(REQUIRED_COLS, LAMBDA c : ~ has_col(df, c))

\* warnings.unmapped_categories of step 9, as a function on the columns that
\* have unmapped values.
cat_warnings(df) ==
    LET pairs == {<<"gender_norm", "gender">>, <<"ethnicity_norm", "ethnicity">>,
                  <<"age_group", "age_range">>}
        hits == {p \in pairs : has_col(df, p[1]) /\ unmapped(df, p[1], p[2]) # <<>>}
    IN [c \in {p[2] : p \in hits} |->
           unmapped(df, (CHOOSE p \in hits : p[2] = c)[1], c)]

\* Step 9 reads df[c] whenever the normalised column exists.
cat_keyerror(df) ==
    \/ has_col(df, "gender_norm") /\ ~ has_col(df, "gender")
    \/ has_col(df, "ethnicity_norm") /\ ~ has_col(df, "ethnicity")
    \/ has_col(df, "age_group") /\ ~ has_col(df, "age_range")

\* report["status"] after each numbered step of validate_processed_data
\* (step 7 once per threshold column): a sequence of 11 statuses, the first
\* being the initial "pass".
status_steps(df, row_count_raw) ==
    LET s0 == "pass"
        s1 == esc_fail(s0, missing_columns(df) # <<>>)
        s2 == esc_fail(s1, has_col(df, "review_id") /\ duplicated_sum(df, "review_id") > 0)
        s3 == esc_fail(s2, row_count_raw # NoRowCount /\ row_count_raw - Len(df.rows) # 0)
        s4 == esc_fail(s3, has_col(df, "rating_1_5")
                           /\ count_rows(df, LAMBDA r : NumLt(r["rating_1_5"], Int2Num(1))
                                                       \/ NumGt(r["rating_1_5"], Int2Num(5))) > 0)
        s5 == esc_fail(s4, has_col(df, "tip_percentage")
                           /\ count_rows(df, LAMBDA r : NumGt(r["tip_percentage"], Int2Num(30))) > 0)
        s6 == esc_fail(s5, has_col(df, "review_length")
                           /\ count_rows(df, LAMBDA r : NumGt(r["review_length"], Int2Num(2000))) > 0)
        s7a == esc_warn(s6, has_col(df, "review_text")
                            /\ NumGt(isna_mean(df, "review_text"), THRESHOLDS["review_text"]))
        s7b == esc_warn(s7a, has_col(df, "age_range")
                             /\ NumGt(isna_mean(df, "age_range"), THRESHOLDS["age_range"]))
        s8 == esc_fail(s7b, has_col(df, "review_text")
                            /\ NumGt(isna_mean(df, "review_text"), Num(1, 2)))
        s9 == esc_warn(s8, DOMAIN cat_warnings(df) # {})
    IN <<s0, s1, s2, s3, s4, s5, s6, s7a, s7b, s8, s9>>

NoReport ==
    [raised |-> "", source |-> "", row_count_processed |-> 0, row_count_raw |-> NoRowCount,
     checks |-> <<>>, warnings |-> <<>>, status |-> "none"]

validate_processed_data(df, source_name, row_count_raw) ==
    LET opt(cond, key, val) == IF cond THEN key :> val ELSE <<>>
        miss_warn == [c \in {c2 \in {"review_text", "age_range"} :
                               has_col(df, c2) /\ NumGt(isna_mean(df, c2), Int2Num(0))} |->
                         fmt_pct1(isna_mean(df, c))]
        checks ==
            ("missing_columns" :> missing_columns(df))
            @@ opt(has_col(df, "review_id"), "duplicate_ids", duplicated_sum(df, "review_id"))
            @@ opt(row_count_raw # NoRowCount, "row_count_mismatch", row_count_raw - Len(df.rows))
            @@ opt(has_col(df, "rating_1_5"), "invalid_ratings",
                   count_rows(df, LAMBDA r : NumLt(r["rating_1_5"], Int2Num(1))
                                             \/ NumGt(r["rating_1_5"], Int2Num(5))))
            @@ opt(has_col(df, "tip_percentage"), "extreme_tips",
                   count_rows(df, LAMBDA r : NumGt(r["tip_percentage"], Int2Num(30))))
            @@ opt(has_col(df, "review_length"), "long_reviews",
                   count_rows(df, LAMBDA r : NumGt(r["review_length"], Int2Num(2000))))
            @@ opt(has_col(df, "review_text"), "null_review_text_pct",
                   IF isna(isna_mean(df, "review_text")) THEN -1
                   ELSE fmt_pct1(isna_mean(df, "review_text")))
        warnings ==
            opt(DOMAIN miss_warn # {}, "missing_values", miss_warn)
            @@ opt(DOMAIN cat_warnings(df) # {}, "unmapped_categories", cat_warnings(df))
    IN IF cat_keyerror(df)
       THEN [NoReport EXCEPT !.raised = "KeyError", !.source = source_name]
       ELSE [raised |-> "", source |-> source_name,
             row_count_processed |-> Len(df.rows), row_count_raw |-> row_count_raw,
             checks |-> checks, warnings |-> warnings,
             status |-> status_steps(df, row_count_raw)[11]]


\* The status after each assignment point of a review entry in
\* validate_with_integrity: the 11 of validate_processed_data, then the
\* conflicting-ids escalation.
entry_status_steps(df, row_count_raw, conflicting_ids) ==
    LET st == status_steps(df, row_count_raw)
    IN Append(st, esc_warn(st[11], conflicting_ids > 0))

\* series.nunique(dropna=True)
nunique(df, c) == Cardinality({df.rows[i][c] : i \in DOMAIN df.rows} \ {NA})

\* round(2) of a non-negative value: the nearest hundredth, ties to even.
Round2(v) ==
    LET n100 == v.n * 100
        fl == n100 \div v.d
        rem2 == 2 * (n100 % v.d)
        q == IF rem2 < v.d THEN fl
             ELSE IF rem2 > v.d THEN fl + 1
             ELSE IF fl % 2 = 0 THEN fl ELSE fl + 1
    IN Num(q, 100)

\* df.groupby("restaurant_name").agg(...).to_dict(orient="records"), as a
\* function on the group keys (missing keys form no group; the order of the
\* records is not modelled).
by_restaurant(df) ==
    LET groups == {df.rows[i]["restaurant_name"] : i \in DOMAIN df.rows} \ {NA}
        members(g) == {i \in DOMAIN df.rows : df.rows[i]["restaurant_name"] = g}
        reviews(g) == Cardinality({i \in members(g) : notna(df.rows[i]["review_id"])})
        customers(g) == Cardinality({df.rows[i]["customer_name"] : i \in members(g)} \ {NA})
    IN [g \in groups |->
           (IF has_col(df, "review_id")
            THEN ("reviews" :> reviews(g))
                 @@ ("reviews_pct" :> Round2(Num(reviews(g) * 100, Len(df.rows))))
            ELSE <<>>)
           @@ (IF has_col(df, "customer_name")
               THEN "unique_customers" :> customers(g) ELSE <<>>)]

\* A variant that asks for review_id.
has_breakdown_ids(df) == has_col(df, "restaurant_name") /\ has_col(df, "review_id")

\* 'if "restaurant_name" in df.columns' and 'if group_cols'
has_breakdown(df) ==
    has_col(df, "restaurant_name") /\ (has_col(df, "review_id") \/ has_col(df, "customer_name"))

integrity_report(df, stage) ==
    LET opt(cond, key, val) == IF cond THEN key :> val ELSE <<>>
        na_cols == {c \in Range(df.cols) : NumGt(isna_mean(df, c), Int2Num(0))}
    IN ("stage" :> stage)
       @@ ("total_rows" :> Len(df.rows))
       @@ opt(has_col(df, "review_id"), "unique_reviews", nunique(df, "review_id"))
       @@ opt(has_col(df, "review_id"), "duplicate_reviews",
              Len(df.rows) - nunique(df, "review_id"))
       @@ opt(has_col(df, "customer_name"), "unique_customers", nunique(df, "customer_name"))
       @@ ("missingness_pct" :> [c \in na_cols |-> fmt_pct1(isna_mean(df, c))])
       @@ opt(has_breakdown(df), "by_restaurant", by_restaurant(df))

RESTAURANT_REQUIRED == <<"restaurant_name", "address", "avg_stars", "total_reviews">>

\* A variant without the total_reviews check.
validate_restaurant_info_stars(df, source_name) ==
    LET missing == SelectSeq(RESTAURANT_REQUIRED, LAMBDA c : ~ has_col(df, c))
        invalid == Cardinality({i \in DOMAIN df.rows :
                       NumLt(df.rows[i]["avg_stars"], Int2Num(1))
                       \/ NumGt(df.rows[i]["avg_stars"], Int2Num(5))})
        s1 == esc_fail("pass", missing # <<>>)
        s2 == esc_fail(s1, has_col(df, "avg_stars") /\ invalid > 0)
    IN [source |-> source_name,
        row_count |-> Len(df.rows),
        status |-> s2,
        checks |-> ("missing_columns" :> missing)]

validate_restaurant_info(df, source_name) ==
    LET opt(cond, key, val) == IF cond THEN key :> val ELSE <<>>
        missing == SelectSeq(RESTAURANT_REQUIRED, LAMBDA c : ~ has_col(df, c))
        invalid == Cardinality({i \in DOMAIN df.rows :
                       NumLt(df.rows[i]["avg_stars"], Int2Num(1))
                       \/ NumGt(df.rows[i]["avg_stars"], Int2Num(5))})
        negatives == Cardinality({i \in DOMAIN df.rows :
                         NumLt(df.rows[i]["total_reviews"], Int2Num(0))})
        s1 == esc_fail("pass", missing # <<>>)
        s2 == esc_fail(s1, has_col(df, "avg_stars") /\ invalid > 0)
        s3 == esc_fail(s2, has_col(df, "total_reviews") /\ negatives > 0)
    IN [source |-> source_name,
        row_count |-> Len(df.rows),
        status |-> s3,
        checks |-> ("missing_columns" :> missing)
                   @@ opt(has_col(df, "avg_stars"), "invalid_avg_stars", invalid)
                   @@ opt(has_col(df, "total_reviews"), "invalid_total_reviews", negatives)]

\* A variant that asks for more than two customers (.gt(2)).
conflicting_ids_gt2(raw_df) ==
    IF has_col(raw_df, "review_id") /\ has_col(raw_df, "customer_name")
    THEN Cardinality({g \in {raw_df.rows[i]["review_id"] : i \in DOMAIN raw_df.rows} \ {NA} :
            Cardinality({raw_df.rows[i]["customer_name"] :
                            i \in {j \in DOMAIN raw_df.rows : raw_df.rows[j]["review_id"] = g}}
                        \ {NA}) > 2})
    ELSE 0

\* raw_df.groupby("review_id")["customer_name"].nunique().gt(1).sum()
conflicting_ids(raw_df) ==
    IF has_col(raw_df, "review_id") /\ has_col(raw_df, "customer_name")
    THEN Cardinality({g \in {raw_df.rows[i]["review_id"] : i \in DOMAIN raw_df.rows} \ {NA} :
            Cardinality({raw_df.rows[i]["customer_name"] :
                            i \in {j \in DOMAIN raw_df.rows : raw_df.rows[j]["review_id"] = g}}
                        \ {NA}) > 1})
    ELSE 0

dedup_metrics(raw_df, processed_df) ==
    [rows_dropped_dedup |-> Len(raw_df.rows) - Len(processed_df.rows),
     conflicting_ids |-> conflicting_ids(raw_df)]

is_restaurant_entry(entry) == Len(entry) = 3 /\ entry[3] = "restaurant_info"

\* The per-source report validate_with_integrity appends for one entry;
\* raised is "KeyError" when validate_processed_data raises.
single_report(entry) ==
    IF is_restaurant_entry(entry)
    THEN [raised |-> "",
          single |-> ("integrity" :> "None") @@ validate_restaurant_info(entry[1], entry[2])]
    ELSE LET raw_df == entry[1]
             processed_df == entry[2]
             pre == integrity_report(raw_df, "raw")
             post == integrity_report(processed_df, "processed")
             rep == validate_processed_data(processed_df, entry[3], Len(raw_df.rows))
             metrics == dedup_metrics(raw_df, processed_df)
         IN IF rep.raised # "" THEN [raised |-> rep.raised, single |-> <<>>]
            ELSE [raised |-> "",
                  single |-> [source |-> rep.source,
                              row_count_processed |-> rep.row_count_processed,
                              row_count_raw |-> rep.row_count_raw,
                              checks |-> metrics @@ rep.checks,
                              warnings |-> rep.warnings,
                              integrity |-> [raw |-> pre, processed |-> post],
                              status |-> esc_warn(rep.status, metrics.conflicting_ids > 0)]]

\* A variant in which a passing or warning source resets the status.
combined_status_last(singles) ==
    IF singles = <<>> THEN "pass" ELSE singles[Len(singles)].status

\* combined["status"] after the entries seen so far
RECURSIVE combined_status(_)
combined_status(singles) ==
    IF singles = <<>> THEN "pass"
    ELSE LET before == combined_status(SubSeq(singles, 1, Len(singles) - 1))
             st == singles[Len(singles)].status
         IN IF st = "fail" THEN "fail"
            ELSE IF st = "warn" /\ before = "pass" THEN "warn"
            ELSE before

NoCombined == [raised |-> "", sources |-> <<>>, status |-> "none"]

NoValIn == [df |-> EmptyFrame, source_name |-> "", row_count_raw |-> NoRowCount]

\* validate_with_integrity(all_data); validation_id and timestamp are fresh
\* values that no check reads and are left out.
validate_with_integrity(all_data) ==
    LET each == AsSeq([i \in DOMAIN all_data |-> single_report(all_data[i])])
        bad == {i \in DOMAIN each : each[i].raised # ""}
        singles == AsSeq([i \in DOMAIN each |-> each[i].single])
    IN IF bad # {} THEN [NoCombined EXCEPT !.raised = each[MinOf(bad)].raised]
       ELSE [raised |-> "", sources |-> singles, status |-> combined_status(singles)]

\* ------------------------------------------------------------------- inputs
N(x) == Int2Num(x)

T1(a) == Str(<<a>>)

\* Each scenario is a raw header with the rows a file of that shape may hold.
\* Two aliases of review_id and of review_text in one header.
ScnAlias ==
    [cols |-> << <<"id">>, <<" ", "Review", "\t", " ", "ID", " ">>, <<"Comments">>,
                 <<"Feedback", " ", "Comments">> >>,
     rows |-> { <<N(1), N(101), T1("Good"), T1("fine")>>,
                <<N(2), N(101), T1("ok"), T1("fine")>>,
                <<N(3), N(102), T1("ok"), Str(<<" ">>)>> }]

ScnRating ==
    [cols |-> << <<"Star", " ", "Rating">>, <<"comments">> >>,
     rows |-> { <<N(4), T1("good")>>, <<N(5), T1("ok")>>, <<N(7), T1("good")>>,
                <<N(10), T1("fine")>>, <<N(85), T1("ok")>>, <<N(150), T1("bad")>>,
                <<T1("n/a"), T1("fine")>>, <<T1("7"), NA>> }]

ScnTip ==
    [cols |-> << <<"Total", " ", "Spent">>, <<"tip", "_", "amount">>,
                 <<"tip", "_", "percentage">>, <<"review", "_", "text">> >>,
     rows |-> { <<N(50), N(10), NA, T1("a")>>, <<N(50), N(20), N(0), T1("b")>>,
                <<N(0), N(10), NA, T1("c")>>, <<N(50), NA, N(0), T1("d")>>,
                <<N(50), N(10), N(15), T1("e")>>, <<N(50), N(10), N(40), T1("f")>>,
                <<T1("50"), N(15), T1("n/a"), T1("g")>> }]

ScnTipNoPct ==
    [cols |-> << <<"total", "_", "spent">>, <<"Tip", " ", "Amount">> >>,
     rows |-> { <<N(50), N(10)>>, <<N(50), N(20)>>, <<N(0), N(5)>> }]

ScnPctOnly ==
    [cols |-> << <<"tip", "_", "percentage">>, <<"comments">> >>,
     rows |-> { <<N(40), T1("a")>>, <<N(15), T1("b")>>, <<NA, T1("c")>> }]

ScnCat ==
    [cols |-> << <<"GENDER">>, <<" ", "Ethnicity">>, <<"Age", " ", "Range">>,
                 <<"review", "_", "text">> >>,
     rows |-> { <<Str(<<" ", "M", " ">>), T1("White"), T1("18-25"), T1("a")>>,
                <<T1("Unspecified"), T1("Latino"), T1("70+"), T1("b")>>,
                <<NA, NA, NA, T1("c")>>,
                <<Str(<<"prefer", " ", "not", " ", "to", " ", "say">>), T1("Martian"),
                  T1("65+"), T1("x2001")>> }]

ScnGenderOnly ==
    [cols |-> << <<"gender">>, <<"comments">> >>,
     rows |-> { <<T1("f"), T1("a")>>, <<T1("Male"), T1("b")>>,
                <<T1("unspecified"), T1("c")>> }]

\* No column of the header is an alias of a unified field.
ScnNone ==
    [cols |-> << <<"Foo">>, <<"bar">> >>,
     rows |-> { <<N(1), T1("a")>>, <<N(2), NA>> }]

ScnFull ==
    [cols |-> << <<"review", "_", "id">>, <<"Guest", " ", "Name">>, <<"Visit", "_", "Date">>,
                 <<"Venue">>, <<"establishment">>, <<"party", "_", "size">>, <<"rating">>,
                 <<"review", "_", "text">> >>,
     rows |-> { <<N(1), Str(<<" ", "Ann">>), T1("2024-01-05"), T1("north"), T1("Cafe"),
                  N(2), N(4), T1("good")>>,
                <<N(2), T1("Ann"), T1("2024-01-05"), T1("north"), T1("Cafe"),
                  T1("two"), N(3), T1("good")>>,
                <<N(1), T1("Bob"), T1("yesterday"), NA, T1("Cafe"),
                  N(4), N(5), Str(<<"ok", " ">>)>>,
                <<N(3), T1("Ann"), T1("2024-01-05"), T1("north"), T1("Cafe"),
                  N(2), N(4), T1("fine")>> }]

\* Two columns of the header have the same normalized name, an alias of
\* rating_raw.
ScnDup ==
    [cols |-> << <<"Rating">>, <<"rating", " ">>, <<"comments">> >>,
     rows |-> { <<N(4), N(5), T1("a")>>, <<N(3), NA, T1("b")>> }]

Scenarios ==
    {ScnAlias, ScnRating, ScnTip, ScnTipNoPct, ScnPctOnly, ScnCat, ScnGenderOnly,
     ScnNone, ScnFull, ScnDup}

\* The shapes loaded repeatedly into one loader instance.
LoaderScenarios ==
    { [cols |-> ScnAlias.cols, rows |-> { <<N(1), N(101), T1("Good"), T1("fine")>> }],
      [cols |-> ScnGenderOnly.cols,
       rows |-> { <<T1("f"), T1("a")>>, <<T1("unspecified"), T1("c")>> }],
      [cols |-> ScnNone.cols, rows |-> { <<N(1), T1("a")>> }] }

FileIds ==
    { [path |-> <<"downtown_reviews", ".csv">>, source_name |-> "downtown"],
      [path |-> <<"midtown_reviews", ".TXT">>, source_name |-> "midtown"] }

UnsupportedIds == { [path |-> <<"restaurant_info", ".JSON">>, source_name |-> "info"] }

FilesOf(scenarios, ids) ==
    {[path |-> id.path, source_name |-> id.source_name,
      raw |-> [cols |-> sc.cols, rows |-> rs]] :
        <<id, sc, rs>> \in {t \in ids \X scenarios \X SeqUpTo(UNION {sc2.rows : sc2 \in scenarios}, MaxRows) :
                              Range(t[3]) \subseteq t[2].rows}}

Files == FilesOf(Scenarios, FileIds)

LoaderFiles == FilesOf(LoaderScenarios, FileIds)

UnsupportedFiles == {[path |-> id.path, source_name |-> id.source_name, raw |-> NoFile.raw] :
                        id \in UnsupportedIds}

\* ------------------------------------------------------------ rag/chunker.py
\* A text is a sequence of characters: " " is a space, and the characters of
\* the k-th sentence are all the k-th letter.
Sentence(k, n) == [i \in 1..n |-> <<"a", "b", "c", "d", "e">>[k]]

\* " ".join(strs)
RECURSIVE join(_)
join(strs) ==
    IF strs = <<>> THEN <<>>
    ELSE IF Len(strs) = 1 THEN strs[1]
    ELSE strs[1] \o <<" ">> \o join(Tail(strs))

\* str[-n:] for n > 0
last_chars(str, n) == IF Len(str) <= n THEN str ELSE SubSeq(str, Len(str) - n + 1, Len(str))

\* The sentence loop of chunk_text from sentence k on; returns the chunks
\* with the final 'if cur' applied.
RECURSIVE chunk_loop(_, _, _, _, _)
chunk_loop(sentences, k, acc, cur, target_chars) ==
    IF k > Len(sentences)
    THEN IF cur # <<>> THEN Append(acc, strip(cur)) ELSE acc
    ELSE IF Len(cur) + Len(sentences[k]) + 1 < target_chars
         THEN chunk_loop(sentences, k + 1, acc, cur \o <<" ">> \o sentences[k], target_chars)
         ELSE chunk_loop(sentences, k + 1, Append(acc, strip(cur)), sentences[k], target_chars)

\* chunk_text(text, target_chars, overlap) on the sentences that
\* re.split(r'(?<=[.!?]) +', normalize_ws(text)) yields; no sentence for an
\* empty or blank text.
chunk_text(sentences, target_chars, overlap) ==
    IF sentences = <<>> THEN <<>>
    ELSE LET split == chunk_loop(sentences, 1, <<>>, <<>>, target_chars)
             context(i) == last_chars(join(SubSeq(split, IF i > 1 THEN i - 1 ELSE 1, i)),
                                      target_chars + overlap)
         IN IF overlap > 0 /\ Len(split) > 1
            THEN AsSeq([i \in DOMAIN split |-> context(i)])
            ELSE split

NoChunkIn == [sentences |-> <<>>, target_chars |-> 0, overlap |-> 0]

MaxSentences == 3

MaxSentenceLen == 4

\* Texts of up to MaxSentences sentences, each of 1..MaxSentenceLen characters.
ChunkTexts ==
    {AsSeq([k \in DOMAIN lens |-> Sentence(k, lens[k])]) :
        lens \in SeqUpTo(1..MaxSentenceLen, MaxSentences)}

\* ------------------------------------- rag/ingest_parquet_to_opensearch.py
RETRY_ATTEMPTS == 5

\* What one bedrock.invoke_model call (with the parsing of its body) does:
\* it yields an embedding, raises a botocore ClientError with an error code
\* and an HTTP status, or raises another exception.
InvokeOutcomes ==
    {[kind |-> "ok", code |-> "", status |-> 200, embedding |-> v] : v \in {"v1", "v2"}}
    \cup {[kind |-> "client", code |-> cs[1], status |-> cs[2], embedding |-> ""] :
            cs \in {<<"ThrottlingException", 400>>, <<"TooManyRequestsException", 429>>,
                    <<"ValidationException", 400>>, <<"AccessDeniedException", 403>>,
                    <<"InternalServerException", 500>>, <<"ServiceUnavailableException", 503>>}}
    \cup {[kind |-> "other", code |-> "", status |-> 0, embedding |-> ""]}

\* A variant that retries every client error.
retries_any(resp) == resp.kind \in {"client", "other"}

\* The handlers of embed_one that go on to the next attempt.
retries(resp) ==
    \/ resp.kind = "other"
    \/ /\ resp.kind = "client"
       /\ resp.code \in {"ThrottlingException", "TooManyRequestsException"} \/ resp.status >= 500

Running == [status |-> "running", value |-> ""]

\* embed_one after the attempt that got resp, attempts being the number of
\* attempts made.
embed_step(resp, attempts) ==
    IF resp.kind = "ok" THEN [status |-> "returned", value |-> resp.embedding]
    ELSE IF ~ retries(resp) THEN [status |-> "raised", value |-> "ClientError"]
    ELSE IF attempts = RETRY_ATTEMPTS THEN [status |-> "raised", value |-> "RuntimeError"]
    ELSE Running

\* ------------------------------------------- lambda/etl_handler.py, etl_core
Response(code, err, bucket) ==
    [statusCode |-> code, error |-> err, processed_bucket |-> bucket,
     embedding_triggered |-> FALSE, embedding_index |-> ""]

NoResponse == Response(0, "", "")

NoEvent == [is_dict |-> FALSE, action |-> "", bucket |-> "", trigger_embedding |-> "",
            os_index |-> ""]

\* Events: a field the event does not have is "".
HandlerEvents ==
    {NoEvent}
    \cup [is_dict : {TRUE}, action : {"", "etl", "embed"}, bucket : {"", "raw"},
          trigger_embedding : {"", "true", "false"}, os_index : {"", "reviews_v2"}]

\* What handle_etl returns, by what it finds in S3: no listing, no data file,
\* a failure on the way (caught by its except clause), or a complete run.
\* The processed bucket is named after the account of the function's ARN.
handle_etl(event, account, s3) ==
    IF event.bucket = "" THEN Response(400, "Missing 'bucket' field", "")
    ELSE IF s3 = "no_contents" THEN Response(404, "No files found in bucket", "")
    ELSE IF s3 = "no_data_files" THEN Response(404, "No valid data files found", "")
    ELSE IF s3 = "error" THEN Response(500, "exception", "")
    ELSE Response(200, "", account)

\* A variant that lets client errors through.
etl_failed_5xx(etl_resp) == etl_resp.statusCode >= 500

\* etl_resp.get("statusCode", 200) >= 400
etl_failed(etl_resp) == etl_resp.statusCode >= 400

\* -------------------------------------------------------------------- state
VARIABLES
    schema_audit_rows,  \* ReviewLoader.schema_audit_rows
    cat_summary,        \* ReviewLoader.cat_summary
    calls,              \* load_and_standardize calls made on the instance
    spec_in,            \* the FileSpec of the last call, with its raw table
    outcome,            \* "none", "ok" (returned) or "ValueError" (raised)
    mapping,            \* build_colmap's result in the last call
    df_typed,           \* df after the coercions and the ratings block
    df_tip,             \* df after the tip block
    df_cat,             \* df after the categoricals block
    df_std,             \* df after "ensure all standard cols"
    df_capped,          \* df after cap_tip_percentage
    df_full,            \* df handed to deduplicate_reviews
    df_s1,              \* deduplicate_reviews: df after dropna(how="all")
    df_s2,              \* deduplicate_reviews: df after the review_text stage
    df_s3,              \* deduplicate_reviews: df after the composite-key stage
    df_out,             \* the table returned by the last call
    report,             \* the last validate_processed_data report
    val_in,             \* the arguments of that validate_processed_data call
    all_data,           \* the argument of the last validate_with_integrity call
    combined,           \* the report (or the error) of that call
    h_pc,               \* etl_handler.handler: position of the current call
    h_event,            \* its event
    h_etl,              \* what _run_etl returned to it
    h_invocations,      \* the payloads it passed to lambda_client.invoke
    h_resp,             \* what it returned
    e_responses,        \* embed_one: the outcomes of its invoke_model calls so far
    e_result,           \* embed_one: how the call ended
    chunk_in,           \* the arguments of the last chunk_text call
    chunks              \* the chunks it returned

vars == <<schema_audit_rows, cat_summary, calls, spec_in, outcome, mapping, df_typed,
          df_tip, df_cat, df_std, df_capped, df_full, df_s1, df_s2, df_s3, df_out, report,
          val_in, all_data, combined, h_pc, h_event, h_etl, h_invocations, h_resp,
          e_responses, e_result, chunk_in, chunks>>

loader_vars == <<schema_audit_rows, cat_summary, calls>>

call_vars == <<spec_in, outcome, mapping, df_typed, df_tip, df_cat, df_std, df_capped, df_full,
               df_s1, df_s2, df_s3, df_out>>

val_vars == <<report, val_in, all_data, combined>>

handler_vars == <<h_pc, h_event, h_etl, h_invocations, h_resp>>

embed_vars == <<e_responses, e_result>>

chunk_vars == <<chunk_in, chunks>>

\* The state of the Lambda and indexing modules, which the ETL does not touch.
rag_vars == <<handler_vars, embed_vars, chunk_vars>>

etl_vars == <<loader_vars, call_vars, val_vars>>

frame_vars == <<df_typed, df_tip, df_cat, df_std, df_capped, df_full, df_s1, df_s2, df_s3, df_out>>

\* ReviewLoader.__init__
Init ==
    /\ schema_audit_rows = <<>>
    /\ cat_summary = [c \in CAT_COLS |-> <<>>]
    /\ calls = 0
    /\ spec_in = NoFile
    /\ outcome = "none"
    /\ mapping = <<>>
    /\ df_typed = EmptyFrame
    /\ df_tip = EmptyFrame
    /\ df_cat = EmptyFrame
    /\ df_std = EmptyFrame
    /\ df_capped = EmptyFrame
    /\ df_full = EmptyFrame
    /\ df_s1 = EmptyFrame
    /\ df_s2 = EmptyFrame
    /\ df_s3 = EmptyFrame
    /\ df_out = EmptyFrame
    /\ report = NoReport
    /\ val_in = NoValIn
    /\ all_data = <<>>
    /\ combined = NoCombined
    /\ h_pc = "idle"
    /\ h_event = NoEvent
    /\ h_etl = NoResponse
    /\ h_invocations = <<>>
    /\ h_resp = NoResponse
    /\ e_responses = <<>>
    /\ e_result = Running
    /\ chunk_in = NoChunkIn
    /\ chunks = <<>>

\* ReviewLoader.load_and_standardize(spec) on a readable file: each frame is
\* computed from the one before it, in the order of the statements.
load_and_standardize(f) ==
    /\ mapping' = build_colmap(normalized_columns(f.raw), SYNONYMS)
    /\ schema_audit_rows' = audit_append(schema_audit_rows, path_name(f.path), mapping')
    /\ df_typed' = rate(coerce_types(select_unified(f.raw, mapping', path_name(f.path))))
    /\ df_tip' = tip_stage(df_typed')
    /\ df_cat' = categoricals(df_tip')
    /\ cat_summary' = observe(cat_summary, df_cat', f.source_name)
    /\ df_std' = ensure_standard(df_cat')
    /\ df_capped' = cap_tip_percentage(df_std', Int2Num(30))
    /\ df_full' = cap_review_length(add_log_total_spent(df_capped'), 2000)
    /\ df_s1' = dedup_stage1(df_full')
    /\ df_s2' = dedup_stage2(df_s1')
    /\ df_s3' = dedup_stage3(df_s2')
    /\ df_out' = select_available(df_s3')

\* df_raw[raw_col] is a DataFrame, not a Series, when the normalized header
\* holds raw_col more than once; pd.DataFrame(selected) then raises ValueError.
selects_duplicate(raw, mp) ==
    \E u \in DOMAIN mp :
        Cardinality({i \in DOMAIN raw.cols : normalize_colname(raw.cols[i]) = mp[u]}) > 1

\* The call up to the raise in pd.DataFrame(selected): the audit rows of the
\* mapping are already appended.
load_raises(f) ==
    /\ mapping' = build_colmap(normalized_columns(f.raw), SYNONYMS)
    /\ schema_audit_rows' = audit_append(schema_audit_rows, path_name(f.path), mapping')
    /\ UNCHANGED <<cat_summary, frame_vars>>

Load(f) ==
    /\ UNCHANGED rag_vars
    /\ calls < MaxLoads
    /\ supported(f.path)
    /\ calls' = calls + 1
    /\ spec_in' = f
    /\ report' = NoReport
    /\ UNCHANGED <<val_in, all_data, combined>>
    /\ IF selects_duplicate(f.raw, build_colmap(normalized_columns(f.raw), SYNONYMS))
       THEN outcome' = "ValueError" /\ load_raises(f)
       ELSE outcome' = "ok" /\ load_and_standardize(f)

\* A variant in which the failing call has already written an audit row.
LoadUnsupported_audited(f) ==
    /\ UNCHANGED rag_vars
    /\ calls < MaxLoads
    /\ ~ supported(f.path)
    /\ calls' = calls + 1
    /\ spec_in' = f
    /\ outcome' = "ValueError"
    /\ report' = NoReport
    /\ schema_audit_rows' = Append(schema_audit_rows,
                                   [source_file |-> path_name(f.path), unified_col |-> "review_id",
                                    raw_col |-> <<"id">>])
    /\ UNCHANGED <<cat_summary, mapping, frame_vars, val_in, all_data, combined>>

\* read_table_any raises ValueError before the loader touches its state.
LoadUnsupported(f) ==
    /\ UNCHANGED rag_vars
    /\ calls < MaxLoads
    /\ ~ supported(f.path)
    /\ calls' = calls + 1
    /\ spec_in' = f
    /\ outcome' = "ValueError"
    /\ report' = NoReport
    /\ UNCHANGED <<schema_audit_rows, cat_summary, mapping, frame_vars, val_in, all_data, combined>>

\* The first load on a fresh instance.
FirstLoad(f) == calls = 0 /\ Load(f)

\* validate_processed_data on the batch the last load returned, with the raw
\* row count (as validate_with_integrity passes it) or without.
Validate(with_raw) ==
    /\ UNCHANGED rag_vars
    /\ outcome = "ok"
    /\ report = NoReport
    /\ val_in' = [df |-> df_out, source_name |-> spec_in.source_name,
                   row_count_raw |-> IF with_raw THEN Len(spec_in.raw.rows) ELSE NoRowCount]
    /\ report' = validate_processed_data(val_in'.df, val_in'.source_name, val_in'.row_count_raw)
    /\ UNCHANGED <<loader_vars, call_vars, all_data, combined>>

LoadAny == \E f \in LoaderFiles : Load(f)

LoadBad == \E f \in UnsupportedFiles : LoadUnsupported(f)

Next == LoadAny \/ LoadBad

\* One loader instance over a sequence of files.
Spec == Init /\ [][Next]_vars

\* The labels of df_raw = read_table_any(local_path): the header as written.
\* validate_with_integrity looks for the labels review_id, customer_name and
\* restaurant_name; any other label is named by its position.
raw_label(raw, i) ==
    IF raw.cols[i] = <<"review", "_", "id">> THEN "review_id"
    ELSE IF raw.cols[i] = <<"customer", "_", "name">> THEN "customer_name"
    ELSE IF raw.cols[i] = <<"restaurant", "_", "name">> THEN "restaurant_name"
    ELSE <<"raw_1", "raw_2", "raw_3", "raw_4", "raw_5", "raw_6", "raw_7", "raw_8">>[i]

raw_table(raw) == MakeFrame(AsSeq([i \in DOMAIN raw.cols |-> raw_label(raw, i)]), raw.rows)

\* A variant that hands the processed table over as the raw one.
batch_entry_processed(f, df_processed) == <<df_processed, df_processed, f.source_name>>

\* all_data.append((df_raw, df_processed, key))
batch_entry(f, df_processed) == <<raw_table(f.raw), df_processed, f.source_name>>

\* handle_etl after the load of one file: validate_with_integrity on the
\* batch of that file.
ValidateBatch ==
    /\ UNCHANGED rag_vars
    /\ outcome = "ok"
    /\ combined = NoCombined
    /\ all_data' = <<batch_entry(spec_in, df_out)>>
    /\ combined' = validate_with_integrity(all_data')
    /\ UNCHANGED <<loader_vars, call_vars, report, val_in>>

LoadOne == \E f \in Files : FirstLoad(f)

ValidateOne == \E with_raw \in BOOLEAN : Validate(with_raw)

NextLoad == LoadOne \/ ValidateOne \/ ValidateBatch

\* One load of any file into a fresh loader, then the validation of its batch.
SpecLoad == Init /\ [][NextLoad]_vars

\* ------------------------------------------------------------- embed_one
\* One pass of the retry loop of embed_one: an invoke_model call and the
\* handling of its outcome.
EmbedAttempt(resp) ==
    /\ e_result = Running
    /\ Len(e_responses) < RETRY_ATTEMPTS
    /\ e_responses' = Append(e_responses, resp)
    /\ e_result' = embed_step(resp, Len(e_responses'))
    /\ UNCHANGED <<etl_vars, handler_vars, chunk_vars>>

NextEmbed == \E resp \in InvokeOutcomes : EmbedAttempt(resp)

SpecEmbed == Init /\ [][NextEmbed]_vars

\* Every invoke_model call returns or raises and every sleep ends, so the
\* loop always goes on to its next pass.
SpecEmbedFair == SpecEmbed /\ WF_vars(NextEmbed)

\* ------------------------------------------------------- etl_handler.handler
\* handler up to the return of _run_etl: the event checks, the ETL run, and
\* the return of a failed ETL response.
HandlerCall(event, account, s3) ==
    /\ h_pc = "idle"
    /\ h_event' = event
    /\ h_invocations' = <<>>
    /\ IF ~ event.is_dict
       THEN /\ h_resp' = Response(400, "Event must be a JSON object", "")
            /\ h_pc' = "done"
            /\ h_etl' = h_etl
       ELSE IF event.action \notin {"", "etl"}
       THEN /\ h_resp' = Response(400, "Unsupported action", "")
            /\ h_pc' = "done"
            /\ h_etl' = h_etl
       ELSE /\ h_etl' = handle_etl(event, account, s3)
            /\ IF etl_failed(h_etl')
               THEN h_resp' = h_etl' /\ h_pc' = "done"
               ELSE h_resp' = h_resp /\ h_pc' = "etl_done"
    /\ UNCHANGED <<etl_vars, embed_vars, chunk_vars>>

\* handler after a successful ETL run: the optional lambda_client.invoke
\* (which returns or raises) and the response.
HandlerFinish(invoke_ok) ==
    /\ h_pc = "etl_done"
    /\ h_pc' = "done"
    /\ IF h_event.trigger_embedding = "true"
       THEN IF h_etl.processed_bucket = ""
            THEN /\ h_resp' = Response(500, "Missing processed_bucket from ETL result", "")
                 /\ h_invocations' = h_invocations
            ELSE /\ h_invocations' =
                       Append(h_invocations,
                              [bucket |-> h_etl.processed_bucket,
                               os_index |-> IF h_event.os_index = "" THEN "reviews_v1"
                                            ELSE h_event.os_index])
                 /\ h_resp' = IF invoke_ok
                              THEN [h_etl EXCEPT !.embedding_triggered = TRUE,
                                                 !.embedding_index =
                                                     h_invocations'[1].os_index]
                              ELSE Response(500, "exception", "")
       ELSE h_resp' = h_etl /\ h_invocations' = h_invocations
    /\ UNCHANGED <<h_event, h_etl, etl_vars, embed_vars, chunk_vars>>

NextHandler ==
    \/ \E event \in HandlerEvents :
          \E account \in {"processed-1", "processed-2"} :
              \E s3 \in {"no_contents", "no_data_files", "error", "ok"} :
                  HandlerCall(event, account, s3)
    \/ \E invoke_ok \in BOOLEAN : HandlerFinish(invoke_ok)

SpecHandler == Init /\ [][NextHandler]_vars

\* --------------------------------------------------------- chunk_text alone
\* chunks = chunk_text(text, target_chars, overlap); make_actions calls it
\* with 1200 and 240, here scaled to a few characters.
Chunk(sentences, target_chars, overlap) ==
    /\ chunk_in = NoChunkIn
    /\ chunk_in' = [sentences |-> sentences, target_chars |-> target_chars, overlap |-> overlap]
    /\ chunks' = chunk_text(sentences, target_chars, overlap)
    /\ UNCHANGED <<etl_vars, handler_vars, embed_vars>>

NextChunk ==
    \E sentences \in ChunkTexts : \E target_chars \in {4, 6} : \E overlap \in {0, 2} :
        Chunk(sentences, target_chars, overlap)

SpecChunk == Init /\ [][NextChunk]_vars

\* ------------------------------------------------- deduplicate_reviews alone
MaxDedupRows == 3

\* Column sets with the rows a table over them may hold: all four key columns
\* beside another column, review_text without the other keys, two keys
\* without review_text, and none of the four.
DedupShapes ==
    { [cols |-> <<"customer_name", "review_text", "review_date", "restaurant_name", "rating_raw">>,
       rows |-> { <<T1("Ann"), T1("good"), Date(1), T1("Cafe"), N(4)>>,
                  <<T1("Ann"), T1("good"), Date(1), T1("Cafe"), N(5)>>,
                  <<T1("Bob"), T1("good"), Date(1), T1("Cafe"), N(4)>>,
                  <<T1("Ann"), T1("ok"), Date(1), T1("Cafe"), N(4)>>,
                  <<T1("Ann"), NA, NA, T1("Cafe"), N(3)>>,
                  <<NA, NA, NA, NA, NA>> }],
      [cols |-> <<"review_text", "rating_raw">>,
       rows |-> { <<T1("good"), N(4)>>, <<T1("good"), N(5)>>, <<T1("ok"), N(4)>>,
                  <<NA, N(4)>>, <<NA, N(5)>>, <<NA, NA>> }],
      [cols |-> <<"customer_name", "restaurant_name", "rating_raw">>,
       rows |-> { <<T1("Ann"), T1("Cafe"), N(4)>>, <<T1("Ann"), T1("Cafe"), N(5)>>,
                  <<T1("Bob"), T1("Cafe"), N(4)>>, <<T1("Ann"), NA, N(4)>>,
                  <<NA, NA, N(4)>>, <<NA, NA, NA>> }],
      [cols |-> <<"rating_raw", "location">>,
       rows |-> { <<N(4), T1("north")>>, <<N(4), NA>>, <<NA, NA>> }] }

DedupFrames ==
    {MakeFrame(t[1].cols, t[2]) :
        t \in {u \in DedupShapes \X SeqUpTo(UNION {sh.rows : sh \in DedupShapes}, MaxDedupRows) :
                 Range(u[2]) \subseteq u[1].rows}}

\* deduplicate_reviews(df) called on its own.
Deduplicate(df) ==
    /\ UNCHANGED rag_vars
    /\ outcome = "none"
    /\ outcome' = "ok"
    /\ df_full' = df
    /\ df_s1' = dedup_stage1(df_full')
    /\ df_s2' = dedup_stage2(df_s1')
    /\ df_s3' = dedup_stage3(df_s2')
    /\ df_out' = deduplicate_reviews(df)
    /\ UNCHANGED <<loader_vars, spec_in, mapping, df_typed, df_tip, df_cat, df_std, df_capped,
                   val_vars>>

NextDedup == \E df \in DedupFrames : Deduplicate(df)

SpecDedup == Init /\ [][NextDedup]_vars

\* ------------------------------------------------------ the validation layer
MaxValRows == 2

MaxBoundaryRows == 5

MaxEntries == 3

VAL_COLS == <<"review_id", "rating_1_5", "review_text", "tip_percentage", "review_length",
              "age_range">>

\* Rows of a processed table over VAL_COLS: two clean rows, and rows with a
\* repeated id, a rating above 5 and below 1, a tip above 30, a length above
\* 2000, and a missing text, age range or id.
ValRows ==
    { <<N(1), N(4), T1("good"), N(10), N(4), T1("18-25")>>,
      <<N(2), N(5), T1("ok"), N(30), N(2000), T1("65+")>>,
      <<N(1), N(1), T1("fine"), NA, N(4), T1("18-25")>>,
      <<N(3), N(6), T1("good"), N(10), N(4), T1("18-25")>>,
      <<N(4), Num(1, 2), T1("good"), N(10), N(4), T1("18-25")>>,
      <<N(5), N(4), T1("good"), N(40), N(4), T1("18-25")>>,
      <<N(6), N(4), T1("x2001"), N(10), N(2001), T1("18-25")>>,
      <<N(7), NA, NA, N(10), NA, T1("18-25")>>,
      <<N(8), N(4), T1("good"), N(10), N(4), NA>>,
      <<NA, N(4), T1("bad"), N(10), N(3), T1("18-25")>> }

\* A table over the columns of VAL_COLS other than those in drop.
ValFrame(tuples, drop) ==
    project(MakeFrame(VAL_COLS, tuples), SelectSeq(VAL_COLS, LAMBDA c : c \notin drop))

\* n rows with ids 1..n, the first k_text without review_text and the first
\* k_age without age_range.
BoundaryFrame(n, k_text, k_age) ==
    MakeFrame(VAL_COLS,
              [i \in 1..n |-> <<N(i), N(4), IF i <= k_text THEN NA ELSE T1("good"), N(10),
                                IF i <= k_text THEN NA ELSE N(4),
                                IF i <= k_age THEN NA ELSE T1("18-25")>>])

\* Tables with normalised categorical columns: with their raw columns (one
\* value the normalisation left missing), and gender_norm without gender.
CatFrames ==
    { MakeFrame(<<"review_id", "rating_1_5", "review_text", "age_range", "gender", "gender_norm">>,
                << <<N(1), N(4), T1("good"), T1("18-25"), T1("f"), T1("female")>>,
                   <<N(2), N(4), T1("ok"), T1("18-25"), T1("zz"), NA>> >>),
      MakeFrame(<<"review_id", "rating_1_5", "review_text", "age_range", "gender", "gender_norm">>,
                << <<N(1), N(4), T1("good"), T1("18-25"), T1("f"), T1("female")>>,
                   <<N(2), N(4), T1("ok"), T1("18-25"), NA, NA>> >>),
      MakeFrame(<<"review_id", "rating_1_5", "review_text", "age_range", "gender_norm">>,
                << <<N(1), N(4), T1("good"), T1("18-25"), T1("female")>> >>),
      MakeFrame(<<"review_id", "rating_1_5", "age_range", "ethnicity", "ethnicity_norm", "age_group">>,
                << <<N(1), N(7), T1("18-25"), T1("x"), NA, T1("young_adult")>> >>) }

\* The processed tables validate_processed_data is called on.
ValFrames ==
    {ValFrame(t, {}) : t \in SeqUpTo(ValRows, MaxValRows)}
    \cup {ValFrame(t, d) : t \in SeqUpTo({r \in ValRows : r[1] \in {N(1), N(7)}}, MaxValRows),
                           d \in (SUBSET {"review_id", "rating_1_5", "review_text"})
                                 \cup {{"tip_percentage", "review_length", "age_range"}}}
    \cup {BoundaryFrame(n, kt, ka) : <<n, kt, ka>> \in
             {t \in (1..MaxBoundaryRows) \X (0..MaxBoundaryRows) \X (0..MaxBoundaryRows) :
                t[2] <= t[1] /\ t[3] <= t[1]}}
    \cup {BoundaryFrame(20, 9, 4), BoundaryFrame(20, 8, 5), BoundaryFrame(20, 10, 0),
          BoundaryFrame(20, 11, 0)}
    \cup CatFrames

\* validate_processed_data(df, source_name, row_count_raw=rc) called directly.
ValidateTable(df, rc) ==
    /\ UNCHANGED rag_vars
    /\ outcome = "none"
    /\ outcome' = "ok"
    /\ val_in' = [df |-> df, source_name |-> "downtown", row_count_raw |-> rc]
    /\ report' = validate_processed_data(val_in'.df, val_in'.source_name, val_in'.row_count_raw)
    /\ UNCHANGED <<loader_vars, spec_in, mapping, frame_vars, all_data, combined>>

\* Raw tables as validate_with_integrity receives them.
RawFrames ==
    {MakeFrame(<<"review_id", "customer_name">>, t) :
        t \in SeqUpTo({ <<N(1), T1("Ann")>>, <<N(1), T1("Bob")>>, <<N(2), T1("Ann")>>,
                        <<N(1), NA>>, <<NA, T1("Bob")>> }, MaxValRows)}
    \cup {MakeFrame(<<"id", "name">>, << <<N(1), T1("Ann")>>, <<N(1), T1("Bob")>> >>),
          MakeFrame(<<"review_id", "restaurant_name">>,
                    << <<N(1), T1("Cafe")>>, <<N(1), T1("Cafe")>> >>),
          MakeFrame(<<"restaurant_name", "customer_name">>,
                    << <<T1("Cafe"), T1("Ann")>>, <<T1("Cafe"), NA>> >>),
          MakeFrame(<<"restaurant_name">>, << <<T1("Cafe")>>, <<NA>> >>)}

RestaurantFrames ==
    {MakeFrame(RESTAURANT_REQUIRED, t) :
        t \in SeqUpTo({ <<T1("Cafe"), T1("a"), Num(9, 2), N(10)>>,
                        <<T1("Cafe"), T1("a"), N(6), N(10)>>,
                        <<T1("Cafe"), T1("a"), N(4), N(-1)>>,
                        <<NA, NA, NA, NA>> }, MaxValRows)}
    \cup {MakeFrame(<<"restaurant_name", "avg_stars">>, << <<T1("Cafe"), N(4)>> >>),
          MakeFrame(<<"restaurant_name", "avg_stars">>, <<>>)}

\* Processed tables paired with the raw tables: clean, over a warn threshold,
\* failing, and with a normalised column whose raw column is absent.
PairedFrames ==
    {BoundaryFrame(n, kt, 0) : <<n, kt>> \in {<<0, 0>>, <<1, 0>>, <<2, 0>>, <<2, 1>>, <<2, 2>>}}
    \cup {f \in CatFrames : Len(f.rows) = 1}

\* One review entry of every pairing.
ReviewEntries == {<<r, q, "downtown">> : r \in RawFrames, q \in PairedFrames}

RestaurantEntries == {<<q, "info", "restaurant_info">> : q \in RestaurantFrames}

\* Entries that make up the longer lists: reports of each status.
ListEntries ==
    { <<MakeFrame(<<"review_id", "customer_name">>, << <<N(1), T1("Ann")>> >>),
        BoundaryFrame(1, 0, 0), "downtown">>,
      <<MakeFrame(<<"review_id", "customer_name">>, << <<N(1), T1("Ann")>>, <<N(1), T1("Bob")>> >>),
        BoundaryFrame(2, 0, 0), "midtown">>,
      <<MakeFrame(<<"review_id", "customer_name">>, << <<N(1), T1("Ann")>> >>),
        BoundaryFrame(2, 2, 0), "uptown">>,
      <<MakeFrame(RESTAURANT_REQUIRED, << <<T1("Cafe"), T1("a"), Num(9, 2), N(10)>> >>),
        "info", "restaurant_info">>,
      <<MakeFrame(RESTAURANT_REQUIRED, << <<T1("Cafe"), T1("a"), N(6), N(10)>> >>),
        "info2", "restaurant_info">> }

AllData ==
    {<<e>> : e \in ReviewEntries \cup RestaurantEntries}
    \cup SeqUpTo(ListEntries, MaxEntries)

\* validate_with_integrity(all_data)
ValidateAll(entries) ==
    /\ UNCHANGED rag_vars
    /\ outcome = "none"
    /\ all_data' = entries
    /\ combined' = validate_with_integrity(all_data')
    /\ outcome' = IF combined'.raised = "" THEN "ok" ELSE combined'.raised
    /\ UNCHANGED <<loader_vars, spec_in, mapping, frame_vars, report, val_in>>

ValidateOneTable ==
    \E df \in ValFrames :
        \E rc \in {NoRowCount, Len(df.rows), Len(df.rows) + 1} : ValidateTable(df, rc)

ValidateEntries == \E entries \in AllData : ValidateAll(entries)

NextValidate == ValidateOneTable \/ ValidateEntries

SpecValidate == Init /\ [][NextValidate]_vars


\* ================================================================== claims
SynonymFields == {SYNONYMS[i].unified : i \in DOMAIN SYNONYMS}

AliasesOf(u) == SYNONYMS[CHOOSE i \in DOMAIN SYNONYMS : SYNONYMS[i].unified = u].alts

\* The raw cell of row i of the last file under the column resolved to u.
RawCell(i, u) ==
    spec_in.raw.rows[i][IndexOf(normalized_columns(spec_in.raw), mapping[u])]

Loaded == outcome = "ok"

AllRows(df, P(_)) == \A i \in DOMAIN df.rows : P(df.rows[i])

SomeRow(df, P(_)) == \E i \in DOMAIN df.rows : P(df.rows[i])

\* ---- C1
\* C1 as stated: the returned table has the 17 standard fields in the order
\* of STANDARD_COLS, and every standard field a raw column can resolve to (a
\* field of the synonym table) but none did is missing in every row.
C1_Original ==
    Loaded =>
        /\ Len(df_out.cols) >= Len(STANDARD_COLS)
        /\ SubSeq(df_out.cols, 1, Len(STANDARD_COLS)) = STANDARD_COLS
        /\ \A c \in SynonymFields \ DOMAIN mapping : AllRows(df_out, LAMBDA r : isna(r[c]))

\* C1 amended: the 17 standard fields come first, in the order of
\* STANDARD_COLS; an unresolved field of the synonym table is missing in every
\* row unless it is tip_percentage and both total_spent and tip_amount
\* resolved (then it is derived); rating_scale and rating_1_5 are missing in
\* every row when rating_raw did not resolve; source_file holds the file name
\* in every row.
C1_SchemaComplete ==
    Loaded =>
        /\ Len(df_out.cols) >= Len(STANDARD_COLS)
        /\ SubSeq(df_out.cols, 1, Len(STANDARD_COLS)) = STANDARD_COLS
        /\ \A c \in SynonymFields \ DOMAIN mapping :
              (c # "tip_percentage" \/ ~ ({"total_spent", "tip_amount"} \subseteq DOMAIN mapping))
                  => AllRows(df_out, LAMBDA r : isna(r[c]))
        /\ "rating_raw" \notin DOMAIN mapping
              => AllRows(df_out, LAMBDA r : isna(r["rating_scale"]) /\ isna(r["rating_1_5"]))
        /\ AllRows(df_out, LAMBDA r : r["source_file"] = Str(path_name(spec_in.path)))

\* A load that returned rows for a file in which some fields did not resolve
\* and tip_percentage was derived.
C1_Witness ==
    /\ Loaded
    /\ df_out.rows # <<>>
    /\ DOMAIN mapping = {"total_spent", "tip_amount"}
    /\ SomeRow(df_out, LAMBDA r : notna(r["tip_percentage"]))

\* ---- C2
\* C2: the returned table has exactly the 17 standard fields followed by
\* gender_norm, ethnicity_norm and age_group.
C2_TwentyColumns == Loaded => df_out.cols = STANDARD_COLS \o NORM_COLS

\* ---- C3
\* C3: a unified field is in the mapping exactly when one of its aliases
\* equals a normalized raw column name, and it is then mapped to the raw
\* column whose normalized name is the earliest-declared such alias; this
\* holds of the mapping of the load and of build_colmap applied to the raw
\* header as it stands in the file.
C3_FirstAliasWins ==
    Loaded =>
        LET names == Range(normalized_columns(spec_in.raw))
            direct == build_colmap(spec_in.raw.cols, SYNONYMS)
        IN \A u \in SynonymFields :
              LET alts == AliasesOf(u)
                  hits == {k \in DOMAIN alts : alts[k] \in names}
              IN /\ (u \in DOMAIN mapping) <=> (hits # {})
                 /\ (u \in DOMAIN direct) <=> (hits # {})
                 /\ hits # {} =>
                       /\ mapping[u] = alts[MinOf(hits)]
                       /\ direct[u] \in Range(spec_in.raw.cols)
                       /\ normalize_colname(direct[u]) = alts[MinOf(hits)]

\* A header holding columns for two aliases of review_id, the later-declared
\* alias ("id") standing first in the file.
C3_Witness ==
    /\ Loaded
    /\ <<"id">> \in Range(normalized_columns(spec_in.raw))
    /\ "review_id" \in DOMAIN mapping
    /\ mapping["review_id"] = <<"review", "_", "id">>

\* ---- C4
\* C4: after any sequence of loads on one instance the schema-audit log holds
\* exactly one row per resolved unified column per file: no two of its rows
\* share the same (source_file, unified field).
C4_UniqueAuditRows ==
    \A i, j \in DOMAIN schema_audit_rows :
        (schema_audit_rows[i].source_file = schema_audit_rows[j].source_file
         /\ schema_audit_rows[i].unified_col = schema_audit_rows[j].unified_col) => i = j

\* Two loads of files with the same name on one instance have both written
\* rows to the log.
C4_Witness ==
    /\ calls >= 2
    /\ Loaded
    /\ mapping # <<>>
    /\ Len(schema_audit_rows) > Cardinality(DOMAIN mapping)
    /\ schema_audit_rows[1].source_file = path_name(spec_in.path)

\* ---- C5
\* C5: every (column, source, value) observation categorical_report() lists
\* before a load is still listed after it.
C5_ObservationsKept ==
    [][categorical_report(cat_summary) \subseteq categorical_report(cat_summary')]_vars


\* ---- C6
\* The ratings of the whole input file, coerced to numbers (missing dropped).
RatingsOfFile ==
    {coerce_numeric(RawCell(i, "rating_raw")) : i \in DOMAIN spec_in.raw.rows} \ {NA}

\* The scale the claim assigns to a file from its largest rating.
ScaleOfFile ==
    LET rs == RatingsOfFile
    IN IF (\E v \in rs : NumGt(v, N(5))) /\ (\A v \in rs : NumLe(v, N(10))) THEN 10
       ELSE IF (\E v \in rs : NumGt(v, N(10))) /\ (\A v \in rs : NumLe(v, N(100))) THEN 100
       ELSE 5

\* C6: when rating_raw resolved, one scale is inferred from the largest
\* non-missing rating of the whole input file (10 if it is above 5 and at most
\* 10, 100 if above 10 and at most 100, otherwise 5), every row carries that
\* scale, and rating_1_5 = rating_raw / scale * 5 (missing when rating_raw is
\* missing); this holds before deduplication and of every returned row.
C6_RatingScale ==
    (Loaded /\ "rating_raw" \in DOMAIN mapping) =>
        LET ok(r) == /\ r["rating_scale"] = N(ScaleOfFile)
                     /\ r["rating_1_5"] = IF isna(r["rating_raw"]) THEN NA
                                          ELSE Num(r["rating_raw"].n * 5,
                                                   r["rating_raw"].d * ScaleOfFile)
        IN /\ Len(df_typed.rows) = Len(spec_in.raw.rows)
           /\ \A i \in DOMAIN df_typed.rows :
                 df_typed.rows[i]["rating_raw"] = coerce_numeric(RawCell(i, "rating_raw"))
           /\ AllRows(df_typed, ok)
           /\ AllRows(df_out, ok)
           /\ \A j \in DOMAIN df_out.rows :
                 df_out.rows[j]["rating_raw"] =
                     coerce_numeric(RawCell(df_out.index[j] + 1, "rating_raw"))

\* A file whose largest rating is 7: a returned row rated 7 has scale 10 and
\* rating_1_5 = 3.5.
C6_Witness ==
    /\ Loaded
    /\ "rating_raw" \in DOMAIN mapping
    /\ N(7) \in RatingsOfFile
    /\ \A v \in RatingsOfFile : NumLe(v, N(7))
    /\ SomeRow(df_out, LAMBDA r : r["rating_raw"] = N(7) /\ r["rating_scale"] = N(10)
                                    /\ r["rating_1_5"] = Num(7, 2))

\* ---- C7
CellOr(df, i, c) == IF has_col(df, c) THEN df.rows[i][c] ELSE NA

\* Row i of the table entering the tip block meets the condition of the
\* derivation.
TipDerivable(i) ==
    /\ isna(CellOr(df_typed, i, "tip_percentage")) \/ CellOr(df_typed, i, "tip_percentage") = N(0)
    /\ NumGt(CellOr(df_typed, i, "total_spent"), N(0))
    /\ notna(CellOr(df_typed, i, "tip_amount"))

\* C7: the tip block sets tip_percentage to tip_amount / total_spent * 100 in
\* exactly the rows where tip_percentage is missing or zero, total_spent is
\* positive and tip_amount is present; every other row keeps its
\* tip_percentage.
C7_TipDerivation ==
    Loaded =>
        /\ Len(df_tip.rows) = Len(df_typed.rows)
        /\ \A i \in DOMAIN df_typed.rows :
              CellOr(df_tip, i, "tip_percentage") =
                  IF TipDerivable(i)
                  THEN Num(df_typed.rows[i]["tip_amount"].n * 100 * df_typed.rows[i]["total_spent"].d,
                           df_typed.rows[i]["tip_amount"].d * df_typed.rows[i]["total_spent"].n)
                  ELSE CellOr(df_typed, i, "tip_percentage")

\* A file with a row (total_spent 50, tip_amount 20, tip_percentage 0), which
\* gets 40, and a row whose tip_percentage 15 is kept.
C7_Witness ==
    /\ Loaded
    /\ \E i \in DOMAIN df_typed.rows :
          /\ TipDerivable(i)
          /\ CellOr(df_typed, i, "tip_percentage") = N(0)
          /\ CellOr(df_tip, i, "tip_percentage") = N(40)
    /\ \E i \in DOMAIN df_typed.rows :
          /\ ~ TipDerivable(i)
          /\ CellOr(df_tip, i, "tip_percentage") = N(15)

\* ---- C8
\* C8: the cap replaces every tip_percentage above 30 by exactly 30, leaves
\* the values at or below 30 and the missing ones, and removes no row; no
\* returned row has a tip_percentage above 30.
C8_TipCap ==
    Loaded =>
        /\ df_capped.index = df_std.index
        /\ Len(df_capped.rows) = Len(df_std.rows)
        /\ \A i \in DOMAIN df_std.rows :
              /\ df_capped.rows[i]["tip_percentage"] =
                    IF NumGt(df_std.rows[i]["tip_percentage"], N(30)) THEN N(30)
                    ELSE df_std.rows[i]["tip_percentage"]
              /\ \A c \in Range(df_std.cols) \ {"tip_percentage"} :
                    df_capped.rows[i][c] = df_std.rows[i][c]
        /\ AllRows(df_out, LAMBDA r : ~ NumGt(r["tip_percentage"], N(30)))

\* A tip_percentage of 40 entered the cap and the row is returned with 30.
C8_Witness ==
    /\ Loaded
    /\ \E j \in DOMAIN df_out.rows :
          /\ df_std.rows[df_out.index[j] + 1]["tip_percentage"] = N(40)
          /\ df_out.rows[j]["tip_percentage"] = N(30)

\* ---- C9
CAT_TABLE ==
    { [col |-> "gender", norm |-> "gender_norm", cmap |-> GENDER_MAP],
      [col |-> "ethnicity", norm |-> "ethnicity_norm", cmap |-> ETHNICITY_MAP],
      [col |-> "age_range", norm |-> "age_group", cmap |-> AGE_RANGE_MAP] }

\* What the claim gives as the normalized value of a raw cell under cmap.
NormOf(raw, cmap) ==
    IF isna(raw) THEN NA
    ELSE LET key == lower(strip(as_string(raw).s))
         IN IF key \in DOMAIN cmap THEN Str(cmap[key]) ELSE Str(key)

\* C9: for each resolved categorical column the normalized value of a row is
\* the canonical spelling of its trimmed, lowercased raw value when the map
\* has one, that trimmed, lowercased value itself when it has none, and
\* missing only when the raw value is missing; this holds of every row before
\* deduplication and of every returned row.
C9_CategoricalFallback ==
    Loaded =>
        \A t \in CAT_TABLE :
            t.col \in DOMAIN mapping =>
                /\ Len(df_cat.rows) = Len(spec_in.raw.rows)
                /\ \A i \in DOMAIN df_cat.rows :
                      /\ df_cat.rows[i][t.norm] = NormOf(RawCell(i, t.col), t.cmap)
                      /\ isna(df_cat.rows[i][t.norm]) <=> isna(RawCell(i, t.col))
                /\ has_col(df_out, t.norm)
                /\ \A j \in DOMAIN df_out.rows :
                      df_out.rows[j][t.norm] =
                          NormOf(RawCell(df_out.index[j] + 1, t.col), t.cmap)

\* A returned row whose raw gender "Unspecified" has no canonical spelling
\* carries gender_norm = "unspecified", beside a row whose " M " became "male".
C9_Witness ==
    /\ Loaded
    /\ "gender" \in DOMAIN mapping
    /\ \E j \in DOMAIN df_out.rows :
          /\ RawCell(df_out.index[j] + 1, "gender") = T1("Unspecified")
          /\ df_out.rows[j]["gender_norm"] = T1("unspecified")
    /\ \E j \in DOMAIN df_out.rows :
          /\ RawCell(df_out.index[j] + 1, "gender") = Str(<<" ", "M", " ">>)
          /\ df_out.rows[j]["gender_norm"] = T1("male")

\* ---- C10
\* The returned rows hold a non-missing value of categorical column t.col that
\* is no key of its map.
HasUnmapped(t) ==
    /\ has_col(df_out, t.col)
    /\ SomeRow(df_out, LAMBDA r : notna(r[t.col]) /\ r[t.col].s \notin DOMAIN t.cmap)

\* C10: once the loader's output for a file has been validated, a non-missing
\* categorical value with no entry in the canonical map is recorded under
\* warnings.unmapped_categories for its column, and the status is not "pass".
C10_UnmappedWarned ==
    (Loaded /\ report.status # "none") =>
        \A t \in CAT_TABLE :
            HasUnmapped(t) =>
                /\ "unmapped_categories" \in DOMAIN report.warnings
                /\ t.col \in DOMAIN report.warnings["unmapped_categories"]
                /\ report.status # "pass"


\* ---- C11
\* sub is what is left of df after removing rows: same columns, and its rows
\* with their labels are rows of df, unaltered and in the order of df.
IsSubsequence(sub, df) ==
    LET pos(j) == IndexOf(df.index, sub.index[j])
    IN /\ sub.cols = df.cols
       /\ Len(sub.rows) = Len(sub.index)
       /\ Len(sub.rows) <= Len(df.rows)
       /\ \A j \in DOMAIN sub.rows :
             /\ sub.index[j] \in Range(df.index)
             /\ sub.rows[j] = df.rows[pos(j)]
       /\ \A j, k \in DOMAIN sub.rows : j < k => pos(j) < pos(k)

\* C11: after each of the three stages of deduplicate_reviews the retained
\* rows are a subsequence of the stage's input rows (only removed, never
\* added, altered or re-ordered), so no stage increases the row count; the
\* function returns the third stage's table.
C11_StagesOnlyRemove ==
    Loaded =>
        /\ IsSubsequence(df_s1, df_full)
        /\ IsSubsequence(df_s2, df_s1)
        /\ IsSubsequence(df_s3, df_s2)
        /\ Len(df_s3.rows) <= Len(df_s2.rows)
        /\ Len(df_s2.rows) <= Len(df_s1.rows)
        /\ Len(df_s1.rows) <= Len(df_full.rows)

\* The first and the third stage each removed a row, and a row stayed (the
\* third stage removes nothing from a table that has a review_text column,
\* whose values the second stage has made distinct).
C11_Witness ==
    /\ Loaded
    /\ Len(df_s3.rows) > 0
    /\ Len(df_s3.rows) < Len(df_s2.rows)
    /\ Len(df_s1.rows) < Len(df_full.rows)

\* ---- C12
\* Position i of df is the first one that carries its review_text (a missing
\* review_text counts as a value, as drop_duplicates compares it).
FirstWithText(df, i) ==
    \A j \in 1..(i - 1) : df.rows[j]["review_text"] # df.rows[i]["review_text"]

\* C12: when review_text is a column, stage 2 retains exactly the rows that
\* are the first in original order to carry their review_text, in their
\* order and unaltered, so no two retained rows share a review_text; without
\* the column the stage retains every row.
C12_FirstTextKept ==
    Loaded =>
        IF has_col(df_s1, "review_text")
        THEN /\ IsSubsequence(df_s2, df_s1)
             /\ Range(df_s2.index) =
                   {df_s1.index[i] : i \in {k \in DOMAIN df_s1.rows : FirstWithText(df_s1, k)}}
             /\ \A j, k \in DOMAIN df_s2.rows :
                   df_s2.rows[j]["review_text"] = df_s2.rows[k]["review_text"] => j = k
        ELSE df_s2 = df_s1

\* Stage 2 dropped a later row with the text of the first row and kept a row
\* with another text that stands between them.
C12_Witness ==
    /\ Loaded
    /\ has_col(df_s1, "review_text")
    /\ Len(df_s1.rows) = 3
    /\ notna(df_s1.rows[1]["review_text"])
    /\ df_s1.rows[3]["review_text"] = df_s1.rows[1]["review_text"]
    /\ df_s1.rows[3] # df_s1.rows[1]
    /\ df_s2.index = <<df_s1.index[1], df_s1.index[2]>>

\* ---- C13
KEY_COLS == <<"customer_name", "review_text", "review_date", "restaurant_name">>

KeysOf(df) == {c \in Range(KEY_COLS) : has_col(df, c)}

\* Position i of df is the first one that carries its tuple over the key
\* columns df has.
FirstWithKey(df, i) ==
    \A j \in 1..(i - 1) : \E c \in KeysOf(df) : df.rows[j][c] # df.rows[i][c]

\* C13: stage 3 retains exactly the rows that are the first in original order
\* to carry their tuple over whichever of customer_name, review_text,
\* review_date, restaurant_name are columns, in their order and unaltered;
\* when none of the four is a column the stage retains every row.
C13_FirstKeyKept ==
    Loaded =>
        IF KeysOf(df_s2) # {}
        THEN /\ IsSubsequence(df_s3, df_s2)
             /\ Range(df_s3.index) =
                   {df_s2.index[i] : i \in {k \in DOMAIN df_s2.rows : FirstWithKey(df_s2, k)}}
        ELSE df_s3 = df_s2

\* Stage 3 dropped a later row with the key tuple of the first row although
\* the rows differ in another column, and kept a row with another tuple.
C13_Witness ==
    /\ Loaded
    /\ KeysOf(df_s2) = {"customer_name", "restaurant_name"}
    /\ Len(df_s2.rows) = 3
    /\ df_s2.rows[3] # df_s2.rows[1]
    /\ df_s3.index = <<df_s2.index[1], df_s2.index[2]>>


\* ---- C14
Rank(st) == IF st = "pass" THEN 0 ELSE IF st = "warn" THEN 1 ELSE 2

\* The statuses of trace never step down in severity.
Escalates(trace) ==
    /\ \A i \in DOMAIN trace : trace[i] \in {"pass", "warn", "fail"}
    /\ \A i, j \in DOMAIN trace : i < j => Rank(trace[i]) <= Rank(trace[j])

Validated == report.status # "none"

Combined == combined.status # "none"

\* C14: the status of a per-source report starts at pass and only escalates
\* (pass -> warn -> fail) over the steps of validate_processed_data and the
\* conflicting-ids step of validate_with_integrity; the returned status is the
\* last of those.
C14_StatusEscalates ==
    /\ Validated =>
          LET trace == status_steps(val_in.df, val_in.row_count_raw)
          IN trace[1] = "pass" /\ Escalates(trace) /\ report.status = trace[Len(trace)]
    /\ Combined =>
          \A k \in DOMAIN all_data :
              ~ is_restaurant_entry(all_data[k]) =>
                  LET trace == entry_status_steps(all_data[k][2], Len(all_data[k][1].rows),
                                                  conflicting_ids(all_data[k][1]))
                  IN /\ trace[1] = "pass"
                     /\ Escalates(trace)
                     /\ combined.sources[k].status = trace[Len(trace)]

\* A report that went from pass to warn (missingness) and then to fail (more
\* than half of the texts missing), and stayed fail.
C14_Witness ==
    /\ Validated
    /\ LET trace == status_steps(val_in.df, val_in.row_count_raw)
       IN trace[7] = "pass" /\ trace[8] = "warn" /\ trace[10] = "fail" /\ trace[11] = "fail"

\* ---- C15
\* C15: checks.missing_columns of a returned report lists exactly the required
\* columns (review_id, rating_1_5, review_text) the table lacks, each once and
\* in that order, and the status is fail when it lists any.
C15_MissingColumns ==
    Validated =>
        LET listed == report.checks["missing_columns"]
            absent == {c \in {"review_id", "rating_1_5", "review_text"} : ~ has_col(val_in.df, c)}
        IN /\ Range(listed) = absent
           /\ Len(listed) = Cardinality(absent)
           /\ \A i, j \in DOMAIN listed :
                 i < j => IndexOf(REQUIRED_COLS, listed[i]) < IndexOf(REQUIRED_COLS, listed[j])
           /\ absent # {} => report.status = "fail"

\* A table without review_id and review_text, otherwise clean: status fail,
\* both columns listed.
C15_Witness ==
    /\ Validated
    /\ val_in.df.rows # <<>>
    /\ report.checks["missing_columns"] = <<"review_id", "review_text">>
    /\ report.status = "fail"

\* ---- C16
TextMissing(df) == {i \in DOMAIN df.rows : isna(df.rows[i]["review_text"])}

\* The fail conditions of C16 on a table and a raw row count.
DuplicateIds(df) ==
    has_col(df, "review_id")
    /\ \E i, j \in DOMAIN df.rows : i < j /\ df.rows[i]["review_id"] = df.rows[j]["review_id"]

CountDiffers(df, rc) == rc # NoRowCount /\ rc # Len(df.rows)

RatingOutside(df) ==
    has_col(df, "rating_1_5")
    /\ SomeRow(df, LAMBDA r : NumLt(r["rating_1_5"], N(1)) \/ NumGt(r["rating_1_5"], N(5)))

TipAbove30(df) ==
    has_col(df, "tip_percentage") /\ SomeRow(df, LAMBDA r : NumGt(r["tip_percentage"], N(30)))

LengthAbove2000(df) ==
    has_col(df, "review_length") /\ SomeRow(df, LAMBDA r : NumGt(r["review_length"], N(2000)))

TextMostlyMissing(df) ==
    has_col(df, "review_text") /\ 2 * Cardinality(TextMissing(df)) > Len(df.rows)

FailTrigger(df, rc) ==
    \/ DuplicateIds(df) \/ CountDiffers(df, rc) \/ RatingOutside(df)
    \/ TipAbove30(df) \/ LengthAbove2000(df) \/ TextMostlyMissing(df)

\* C16: a returned report has status fail whenever review_id has duplicate
\* values, the row count differs from the raw row count, a rating_1_5 lies
\* outside [1, 5], a tip_percentage exceeds 30, a review_length exceeds 2000,
\* or more than half of the review_text values are missing; a table with all
\* required columns and none of these does not fail, one with exactly half of
\* its texts missing included.
C16_FailTriggers ==
    Validated =>
        /\ FailTrigger(val_in.df, val_in.row_count_raw) => report.status = "fail"
        /\ (missing_columns(val_in.df) = <<>> /\ ~ FailTrigger(val_in.df, val_in.row_count_raw))
              => report.status # "fail"

\* Exactly half of the texts are missing and nothing else is wrong: warn, not
\* fail.
C16_Witness ==
    /\ Validated
    /\ missing_columns(val_in.df) = <<>>
    /\ Len(val_in.df.rows) > 0
    /\ 2 * Cardinality(TextMissing(val_in.df)) = Len(val_in.df.rows)
    /\ ~ FailTrigger(val_in.df, val_in.row_count_raw)
    /\ report.status = "warn"


\* ---- C17
Missing(df, c) == {i \in DOMAIN df.rows : isna(df.rows[i][c])}

\* More than 40% of review_text, or more than 20% of age_range, is missing.
MissingnessWarn(df) ==
    \/ has_col(df, "review_text")
       /\ 100 * Cardinality(Missing(df, "review_text")) > 40 * Len(df.rows)
    \/ has_col(df, "age_range")
       /\ 100 * Cardinality(Missing(df, "age_range")) > 20 * Len(df.rows)

\* The raw table gives one review_id to two different customer names.
IdConflict(raw_df) ==
    /\ has_col(raw_df, "review_id") /\ has_col(raw_df, "customer_name")
    /\ \E i, j \in DOMAIN raw_df.rows :
          /\ notna(raw_df.rows[i]["review_id"])
          /\ raw_df.rows[i]["review_id"] = raw_df.rows[j]["review_id"]
          /\ notna(raw_df.rows[i]["customer_name"])
          /\ notna(raw_df.rows[j]["customer_name"])
          /\ raw_df.rows[i]["customer_name"] # raw_df.rows[j]["customer_name"]

\* The status C17 gives a report whose table has the required columns and
\* meets a warn condition.
WarnOrFail(status, failing) ==
    /\ status \in {"warn", "fail"}
    /\ failing => status = "fail"
    /\ ~ failing => status = "warn"

\* C17: when the processed table has all required columns and more than 40%
\* of review_text or more than 20% of age_range is missing, or the raw table
\* gives one review_id to more than one customer_name, the per-source status
\* is at least warn: warn when no fail condition holds, fail when one does.
C17_WarnTriggers ==
    /\ (Validated /\ missing_columns(val_in.df) = <<>> /\ MissingnessWarn(val_in.df))
          => WarnOrFail(report.status, FailTrigger(val_in.df, val_in.row_count_raw))
    /\ Combined =>
          \A k \in DOMAIN all_data :
              LET raw_df == all_data[k][1]
                  processed_df == all_data[k][2]
              IN (/\ ~ is_restaurant_entry(all_data[k])
                  /\ missing_columns(processed_df) = <<>>
                  /\ MissingnessWarn(processed_df) \/ IdConflict(raw_df))
                 => WarnOrFail(combined.sources[k].status,
                               FailTrigger(processed_df, Len(raw_df.rows)))

\* A clean processed table whose raw table has a conflicting id: warn; and
\* in the same list a source over 40% missing texts that also fails stays
\* fail.
C17_Witness ==
    /\ Combined
    /\ \E k \in DOMAIN all_data :
          /\ ~ is_restaurant_entry(all_data[k])
          /\ missing_columns(all_data[k][2]) = <<>>
          /\ IdConflict(all_data[k][1])
          /\ ~ MissingnessWarn(all_data[k][2])
          /\ combined.sources[k].status = "warn"
    /\ \E k \in DOMAIN all_data :
          /\ ~ is_restaurant_entry(all_data[k])
          /\ missing_columns(all_data[k][2]) = <<>>
          /\ MissingnessWarn(all_data[k][2])
          /\ combined.sources[k].status = "fail"

\* The age_range threshold alone: more than 20% missing, texts complete.
C17_AgeWitness ==
    /\ Validated
    /\ missing_columns(val_in.df) = <<>>
    /\ has_col(val_in.df, "age_range")
    /\ 100 * Cardinality(Missing(val_in.df, "age_range")) > 20 * Len(val_in.df.rows)
    /\ Missing(val_in.df, "review_text") = {}
    /\ report.status = "warn"

\* ---- C18
SourceName(entry) == IF is_restaurant_entry(entry) THEN entry[2] ELSE entry[3]

\* C18: validate_with_integrity returns one per-source report per entry, in
\* the order of the entries, and its combined status is the worst of the
\* per-source statuses (pass for no entries).
C18_CombinedWorst ==
    Combined =>
        /\ Len(combined.sources) = Len(all_data)
        /\ \A k \in DOMAIN all_data : combined.sources[k].source = SourceName(all_data[k])
        /\ \A k \in DOMAIN all_data : Rank(combined.sources[k].status) <= Rank(combined.status)
        /\ \/ \E k \in DOMAIN all_data : combined.sources[k].status = combined.status
           \/ all_data = <<>> /\ combined.status = "pass"

\* Three sources reporting fail, pass, warn in that order: the later passing
\* and warning sources leave the combined status at fail.
C18_Witness ==
    /\ Combined
    /\ Len(all_data) = 3
    /\ combined.sources[1].status = "fail"
    /\ combined.sources[2].status = "pass"
    /\ combined.sources[3].status = "warn"
    /\ combined.status = "fail"

\* ---- C19
\* C19: the validation functions return a report for every processed table
\* and every list of well-shaped entries; none raises.
C19_NeverRaises ==
    /\ (val_in # NoValIn => report.raised = "")
    /\ (all_data # <<>> => combined.raised = "")

\* validate_processed_data was given a table with gender_norm and no gender
\* column and raised KeyError.
C19_Raised ==
    /\ val_in # NoValIn
    /\ has_col(val_in.df, "gender_norm") /\ ~ has_col(val_in.df, "gender")
    /\ report.raised = "KeyError"

\* ---- C20
\* C20: load_and_standardize of a file with a supported extension returns a
\* table; no header or cell of a readable file makes it raise.
C20_SupportedLoads == (calls > 0 /\ supported(spec_in.path)) => outcome = "ok"

\* A supported file two of whose headers normalise to the same mapped name:
\* the load raised after the audit rows were appended.
C20_Raised ==
    /\ calls > 0 /\ supported(spec_in.path)
    /\ outcome = "ValueError"
    /\ schema_audit_rows # <<>>


\* ---- C21
\* The fail conditions of C21 on a restaurant table.
RestaurantFails(df) ==
    \/ \E c \in {"restaurant_name", "address", "avg_stars", "total_reviews"} : ~ has_col(df, c)
    \/ has_col(df, "avg_stars")
       /\ SomeRow(df, LAMBDA r : NumLt(r["avg_stars"], N(1)) \/ NumGt(r["avg_stars"], N(5)))
    \/ has_col(df, "total_reviews") /\ SomeRow(df, LAMBDA r : NumLt(r["total_reviews"], N(0)))

\* C21: an entry ending in "restaurant_info" is validated by
\* validate_restaurant_info: its report has integrity None and status pass or
\* fail, and fail exactly when a required column is absent, an avg_stars lies
\* outside [1, 5] or a total_reviews is negative.
C21_RestaurantPassFail ==
    Combined =>
        \A k \in DOMAIN all_data :
            (Len(all_data[k]) = 3 /\ all_data[k][3] = "restaurant_info") =>
                LET single == combined.sources[k]
                IN /\ single.integrity = "None"
                   /\ single.source = all_data[k][2]
                   /\ single.row_count = Len(all_data[k][1].rows)
                   /\ single.status \in {"pass", "fail"}
                   /\ single.status = "fail" <=> RestaurantFails(all_data[k][1])

\* A restaurant table with every column, stars in range and a negative
\* total_reviews: fail.
C21_Witness ==
    /\ Combined
    /\ \E k \in DOMAIN all_data :
          /\ all_data[k][3] = "restaurant_info"
          /\ \A c \in Range(RESTAURANT_REQUIRED) : has_col(all_data[k][1], c)
          /\ SomeRow(all_data[k][1], LAMBDA r : NumLt(r["total_reviews"], N(0)))
          /\ AllRows(all_data[k][1], LAMBDA r : ~ NumGt(r["avg_stars"], N(5)))
          /\ combined.sources[k].status = "fail"

\* ---- C22
\* The integrity reports validate_with_integrity made, each with its table.
IntegrityPairs ==
    UNION {{<<all_data[k][1], combined.sources[k].integrity.raw>>,
            <<all_data[k][2], combined.sources[k].integrity.processed>>} :
              k \in {j \in DOMAIN all_data : ~ is_restaurant_entry(all_data[j])}}

MissingnessExact(df, rep) ==
    DOMAIN rep["missingness_pct"] = {c \in Range(df.cols) : Missing(df, c) # {}}

\* C22 as stated: by_restaurant is in the report if and only if restaurant_name
\* and review_id are both columns; missingness_pct has exactly the fields with
\* a missing value.
C22_Original ==
    Combined =>
        \A pr \in IntegrityPairs :
            /\ ("by_restaurant" \in DOMAIN pr[2])
                  <=> (has_col(pr[1], "restaurant_name") /\ has_col(pr[1], "review_id"))
            /\ MissingnessExact(pr[1], pr[2])

\* C22, amended: by_restaurant is in the report if and only if restaurant_name
\* is a column and review_id or customer_name is one; missingness_pct has
\* exactly the fields with a missing value.
C22_Breakdown ==
    Combined =>
        \A pr \in IntegrityPairs :
            /\ ("by_restaurant" \in DOMAIN pr[2])
                  <=> (/\ has_col(pr[1], "restaurant_name")
                       /\ has_col(pr[1], "review_id") \/ has_col(pr[1], "customer_name"))
            /\ MissingnessExact(pr[1], pr[2])

\* A table with restaurant_name and customer_name and no review_id, one
\* customer missing: the breakdown is there, and customer_name is the one
\* field of missingness_pct.
C22_Witness ==
    /\ Combined
    /\ \E pr \in IntegrityPairs :
          /\ has_col(pr[1], "restaurant_name") /\ ~ has_col(pr[1], "review_id")
          /\ "by_restaurant" \in DOMAIN pr[2]
          /\ DOMAIN pr[2]["missingness_pct"] = {"customer_name"}


\* ---- C23
\* Some standard field of row i of df is not missing.
HasStandardValue(df, i) ==
    \E c \in Range(STANDARD_COLS) : has_col(df, c) /\ notna(df.rows[i][c])

\* C23: stage 1 of deduplicate_reviews retains exactly the rows that have a
\* non-missing standard field, in their order and unaltered.
C23_EmptyRowsDropped ==
    Loaded =>
        /\ IsSubsequence(df_s1, df_full)
        /\ Range(df_s1.index) =
              {df_full.index[i] : i \in {k \in DOMAIN df_full.rows : HasStandardValue(df_full, k)}}

\* Of three rows the second, all missing, was dropped and the third, with one
\* value, was kept.
C23_Witness ==
    /\ Loaded
    /\ Len(df_full.rows) = 3
    /\ ~ HasStandardValue(df_full, 2)
    /\ Cardinality({c \in Range(df_full.cols) : notna(df_full.rows[3][c])}) = 1
    /\ df_s1.index = <<df_full.index[1], df_full.index[3]>>

\* ---- C25
\* C25: a table returned by deduplicate_reviews has at most one row with a
\* missing review_text; a load of a file in which no column resolves to
\* review_text returns at most one row.
C25_OneMissingText ==
    Loaded =>
        /\ has_col(df_s3, "review_text") => Cardinality(Missing(df_s3, "review_text")) <= 1
        /\ (calls > 0 /\ "review_text" \notin DOMAIN mapping) => Len(df_out.rows) <= 1

\* A file of two different rows without a review-text column: one row is
\* returned.
C25_Witness ==
    /\ Loaded /\ calls > 0
    /\ "review_text" \notin DOMAIN mapping
    /\ Len(spec_in.raw.rows) = 2
    /\ spec_in.raw.rows[1] # spec_in.raw.rows[2]
    /\ Len(df_full.rows) = 2
    /\ Len(df_out.rows) = 1

\* ---- C27
\* C27: stage 3 of deduplicate_reviews returns its input whenever review_text
\* is a column; in a load it always is, so stage 3 removes no row there.
C27_StageThreeIdle ==
    Loaded =>
        /\ has_col(df_s2, "review_text") => df_s3 = df_s2
        /\ calls > 0 => (has_col(df_s2, "review_text") /\ df_s3 = df_s2)

\* A load that reached stage 3 with two rows equal in customer_name,
\* review_date and restaurant_name and different in review_text: both kept.
C27_Witness ==
    /\ Loaded /\ calls > 0
    /\ Len(df_s2.rows) = 2
    /\ \A c \in {"customer_name", "review_date", "restaurant_name"} :
          df_s2.rows[1][c] = df_s2.rows[2][c] /\ notna(df_s2.rows[1][c])
    /\ df_s3 = df_s2


\* ---- C26
\* The rows deduplicate_reviews removed in the last load.
RowsRemoved == Len(df_full.rows) - Len(df_s3.rows)

Batched == calls > 0 /\ Combined

\* C26: when deduplication removed a row in the load of a source, the report
\* validate_with_integrity makes for the source has status fail, and its
\* row_count_mismatch and rows_dropped_dedup are the number of rows removed.
C26_DedupFails ==
    (Batched /\ RowsRemoved > 0) =>
        LET single == combined.sources[1]
        IN /\ single.status = "fail"
           /\ combined.status = "fail"
           /\ single.checks["row_count_mismatch"] = RowsRemoved
           /\ single.checks["rows_dropped_dedup"] = RowsRemoved

\* A file with every required column, two rows with the same text and
\* different ids, ratings in range: one row removed, status fail.
C26_Witness ==
    /\ Batched
    /\ RowsRemoved = 1
    /\ {"review_id", "rating_raw", "review_text"} \subseteq DOMAIN mapping
    /\ combined.sources[1].checks["duplicate_ids"] = 0
    /\ combined.sources[1].checks["invalid_ratings"] = 0
    /\ combined.sources[1].status = "fail"


\* ---- C28
\* The step is a call of load_and_standardize that fails on the file type.
UnsupportedCall ==
    /\ calls' = calls + 1
    /\ ~ supported(spec_in'.path)
    /\ outcome' = "ValueError"

\* C28: a call of load_and_standardize that fails because the file type is
\* unsupported leaves schema_audit_rows and cat_summary as they were, so the
\* loads after it start from the state the loads before it left.
C28_FailedLoadNoEffect ==
    [][UnsupportedCall =>
          /\ schema_audit_rows' = schema_audit_rows
          /\ cat_summary' = cat_summary
          /\ categorical_report(cat_summary') = categorical_report(cat_summary)]_vars

\* An unsupported file was given to a loader that holds audit rows and
\* categorical values of an earlier load, and they are still there.
C28_Witness ==
    /\ calls = 2
    /\ ~ supported(spec_in.path)
    /\ outcome = "ValueError"
    /\ schema_audit_rows # <<>>
    /\ \E c \in CAT_COLS : DOMAIN cat_summary[c] # {}


\* ---- C30
\* C30: chunk_text returns no empty chunk for a non-empty text, whatever the
\* lengths of its sentences.
C30_ChunksNonEmpty ==
    chunk_in.sentences # <<>> => \A i \in DOMAIN chunks : chunks[i] # <<>>

\* The first sentence alone reaches target_chars - 1: the first chunk
\* returned is empty, also after the overlap step.
C30_EmptyChunk ==
    /\ chunk_in.sentences # <<>>
    /\ Len(chunk_in.sentences[1]) >= chunk_in.target_chars
    /\ chunk_in.overlap > 0
    /\ Len(chunks) > 1
    /\ chunks[1] = <<>>


\* ---- C24
\* The step passes a payload to lambda_client.invoke.
InvokesEmbedding == h_invocations' # h_invocations

\* C24: in one call of the handler the embedding Lambda is invoked at most
\* once, and only in a step after _run_etl returned a status below 400 for an
\* event with trigger_embedding set; when _run_etl returns 400 or more the
\* handler returns that response and never invokes the embedding Lambda.
C24_EmbeddingAfterEtl ==
    /\ [](/\ Len(h_invocations) <= 1
          /\ h_invocations # <<>> =>
                /\ h_etl.statusCode \in 1..399
                /\ h_event.trigger_embedding = "true"
          /\ (h_pc = "done" /\ h_etl.statusCode >= 400) =>
                (h_resp = h_etl /\ h_invocations = <<>>))
    /\ [][InvokesEmbedding =>
             /\ h_pc = "etl_done"
             /\ h_etl.statusCode \in 1..399
             /\ h_event.trigger_embedding = "true"
             /\ h_invocations = <<>>
             /\ Len(h_invocations') = 1]_vars

\* A call whose ETL run returned 200 for an event with trigger_embedding: one
\* invocation, and the response says so.
C24_Witness ==
    /\ h_pc = "done"
    /\ h_etl.statusCode = 200
    /\ Len(h_invocations) = 1
    /\ h_resp.statusCode = 200
    /\ h_resp.embedding_triggered

\* A call whose ETL run returned 404 for an event with trigger_embedding: the
\* 404 is the response and nothing was invoked.
C24_FailedEtlWitness ==
    /\ h_pc = "done"
    /\ h_event.trigger_embedding = "true"
    /\ h_etl.statusCode = 404
    /\ h_resp = h_etl
    /\ h_invocations = <<>>

\* ---- C29
\* The outcomes after which C29 has embed_one try again: throttling, a 5xx
\* status, or an exception that is no client error.
TriesAgain(resp) ==
    \/ resp.kind = "other"
    \/ resp.kind = "client" /\ resp.code \in {"ThrottlingException", "TooManyRequestsException"}
    \/ resp.kind = "client" /\ resp.status \in 500..599

\* What C29 says of a call of embed_one that has made its invocations so far.
EmbedContract ==
    LET n == Len(e_responses)
        last == e_responses[n]
    IN /\ n <= 5
       /\ \A i \in 1..(n - 1) : TriesAgain(e_responses[i])
       /\ IF n = 0 THEN e_result.status = "running"
          ELSE IF last.kind = "ok"
               THEN e_result = [status |-> "returned", value |-> last.embedding]
          ELSE IF ~ TriesAgain(last)
               THEN e_result = [status |-> "raised", value |-> "ClientError"]
          ELSE IF n = 5
               THEN e_result = [status |-> "raised", value |-> "RuntimeError"]
          ELSE e_result.status = "running"

\* C29: embed_one makes at most RETRY_ATTEMPTS (5) invocations and ends: it
\* returns the embedding of the first successful one, raises the client error
\* at once when it is neither throttling nor a 5xx, tries again after
\* throttling, a 5xx and any other exception, and raises RuntimeError after
\* the fifth failed attempt.
C29_EmbedTerminates == []EmbedContract /\ <>(e_result.status # "running")

\* Four retried failures of different kinds, then a success on the fifth
\* attempt.
C29_Witness ==
    /\ Len(e_responses) = 5
    /\ e_responses[1].code = "ThrottlingException"
    /\ e_responses[2].status = 503
    /\ e_responses[3].kind = "other"
    /\ e_responses[4].code = "TooManyRequestsException"
    /\ e_result = [status |-> "returned", value |-> "v2"]

\* Five failed attempts: RuntimeError.
C29_ExhaustedWitness ==
    /\ Len(e_responses) = 5
    /\ e_result = [status |-> "raised", value |-> "RuntimeError"]

=============================================================================
